---- MODULE Spec2Model ----
(***************************************************************************)
(* A model of totp-otp-auth: the Base32 codec (src/base32.ts), the HOTP /  *)
(* TOTP engine (src/totp.ts) and the public entry points (src/index.ts).   *)
(*                                                                         *)
(* Strings are sequences of one-character strings, buffers are sequences   *)
(* of bytes (0..255).  A call that throws yields a record with ok = FALSE. *)
(***************************************************************************)
EXTENDS Integers, Sequences, FiniteSets, TLC

VARIABLES
  b32,      \* the codec under test: its input, output and position
  cmp,      \* the running constantTimeCompare: its locals and position
  api,      \* the last call of the OTP engine or of a public entry point
  now,      \* the wall clock, in seconds (Math.floor(Date.now() / 1000))
  calls,    \* the calls of the core in progress, one per caller
  frames,   \* the local variables of the calls in progress
  trunc     \* the dynamic truncation of a digest: its locals and position

vars == <<b32, cmp, api, now, calls, frames, trunc>>

\* The value of a variable that the specification at hand does not use.
Idle == [pc |-> "idle"]

----------------------------------------------------------------------------
(* JavaScript 32-bit integer operators, on values kept in -2^31 .. 2^31-1. *)

\* x << n for an int32 x and 1 <= n <= 30: the bits above bit 31 - n are
\* lost and bit 31 - n becomes the sign.
Shl(x, n) ==
  LET half == 2 ^ (31 - n)
      rest == x % half
  IN  IF (x \div half) % 2 = 1
        THEN ((rest * (2 ^ n)) - 1073741824) - 1073741824
        ELSE rest * (2 ^ n)

\* (x >>> n) & (2^k - 1) for an int32 x, n + k <= 32: bits n .. n+k-1 of
\* the two's complement pattern of x.
BitField(x, n, k) == (x \div (2 ^ n)) % (2 ^ k)

----------------------------------------------------------------------------
(* Results of calls.                                                       *)

Ok(v) == [ok |-> TRUE, value |-> v]
Throw(e) == [ok |-> FALSE, error |-> e]

----------------------------------------------------------------------------
(* src/base32.ts                                                           *)

BASE32_CHARS ==
  << "A", "B", "C", "D", "E", "F", "G", "H", "I", "J", "K", "L", "M",
     "N", "O", "P", "Q", "R", "S", "T", "U", "V", "W", "X", "Y", "Z",
     "2", "3", "4", "5", "6", "7" >>

\* BASE32_CHARS.indexOf(ch) as a table: the position of each character of
\* the alphabet.
Base32Index ==
  ("A" :> 0) @@ ("B" :> 1) @@ ("C" :> 2) @@ ("D" :> 3) @@ ("E" :> 4)
   @@ ("F" :> 5) @@ ("G" :> 6) @@ ("H" :> 7) @@ ("I" :> 8) @@ ("J" :> 9)
   @@ ("K" :> 10) @@ ("L" :> 11) @@ ("M" :> 12) @@ ("N" :> 13)
   @@ ("O" :> 14) @@ ("P" :> 15) @@ ("Q" :> 16) @@ ("R" :> 17)
   @@ ("S" :> 18) @@ ("T" :> 19) @@ ("U" :> 20) @@ ("V" :> 21)
   @@ ("W" :> 22) @@ ("X" :> 23) @@ ("Y" :> 24) @@ ("Z" :> 25)
   @@ ("2" :> 26) @@ ("3" :> 27) @@ ("4" :> 28) @@ ("5" :> 29)
   @@ ("6" :> 30) @@ ("7" :> 31)

\* The inner `while (bits >= 5)` loop of base32Encode, from the state
\* st = [bits, value, output] reached after a byte was shifted in.
RECURSIVE EncodeDrain(_)
EncodeDrain(st) ==
  IF st.bits >= 5
    THEN EncodeDrain([st EXCEPT
           !.output = Append(st.output,
                        BASE32_CHARS[BitField(st.value, st.bits - 5, 5) + 1]),
           !.bits = st.bits - 5])
    ELSE st

\* The `for` loop of base32Encode from byte i (1-based) on.
RECURSIVE EncodeLoop(_, _, _)
EncodeLoop(buffer, i, st) ==
  IF i > Len(buffer) THEN st
  ELSE EncodeLoop(buffer, i + 1,
         EncodeDrain([st EXCEPT !.value = Shl(st.value, 8) + buffer[i],
                                !.bits = st.bits + 8]))

\* base32Encode with a fault: the last character is taken from the low bits
\* of value, without the shift by 5 - bits.
base32EncodeNoFinalShift(buffer) ==
  LET st == EncodeLoop(buffer, 1, [bits |-> 0, value |-> 0, output |-> <<>>])
  IN  IF st.bits > 0
        THEN Append(st.output, BASE32_CHARS[BitField(st.value, 0, 5) + 1])
        ELSE st.output

\* base32Encode with a fault: the output is padded with "=" to a multiple
\* of eight characters, as strict RFC 4648 has it.
base32EncodePadded(buffer) ==
  LET st == EncodeLoop(buffer, 1, [bits |-> 0, value |-> 0, output |-> <<>>])
      output == IF st.bits > 0
                  THEN Append(st.output,
                         BASE32_CHARS[BitField(Shl(st.value, 5 - st.bits),
                                               0, 5) + 1])
                  ELSE st.output
  IN  output \o [k \in 1..((8 - (Len(output) % 8)) % 8) |-> "="]

base32Encode(buffer) ==
  LET st == EncodeLoop(buffer, 1, [bits |-> 0, value |-> 0, output |-> <<>>])
  IN  IF st.bits > 0
        THEN Append(st.output,
               BASE32_CHARS[BitField(Shl(st.value, 5 - st.bits), 0, 5) + 1])
        ELSE st.output

\* The characters the regular expression class \s matches (those the model
\* uses).
Whitespace == {" ", "\t", "\n"}

\* The upper-case form of each lower-case letter.
UpperOf ==
  ("a" :> "A") @@ ("b" :> "B") @@ ("c" :> "C") @@ ("d" :> "D")
   @@ ("e" :> "E") @@ ("f" :> "F") @@ ("g" :> "G") @@ ("h" :> "H")
   @@ ("i" :> "I") @@ ("j" :> "J") @@ ("k" :> "K") @@ ("l" :> "L")
   @@ ("m" :> "M") @@ ("n" :> "N") @@ ("o" :> "O") @@ ("p" :> "P")
   @@ ("q" :> "Q") @@ ("r" :> "R") @@ ("s" :> "S") @@ ("t" :> "T")
   @@ ("u" :> "U") @@ ("v" :> "V") @@ ("w" :> "W") @@ ("x" :> "X")
   @@ ("y" :> "Y") @@ ("z" :> "Z")

\* String.prototype.toUpperCase on one character.
ToUpperCase(ch) == IF ch \in DOMAIN UpperOf THEN UpperOf[ch] ELSE ch

\* base32.replace(/\s/g, '').toUpperCase()
Normalize(str) ==
  LET kept == SelectSeq(str, LAMBDA ch : ch \notin Whitespace)
  IN  [k \in 1..Len(kept) |-> ToUpperCase(kept[k])]

\* DecodeLoop with a fault: a byte is written only once more than 8 bits
\* are accumulated.
RECURSIVE DecodeLoopLate(_, _, _)
DecodeLoopLate(str, i, st) ==
  IF i > Len(str) THEN st
  ELSE LET charIndex ==
             IF str[i] \in DOMAIN Base32Index THEN Base32Index[str[i]] ELSE -1
       IN  IF charIndex = -1
             THEN [st EXCEPT !.ok = FALSE, !.error = "Invalid Base32 character"]
             ELSE LET value == Shl(st.value, 5) + charIndex
                      bits  == st.bits + 5
                  IN  IF bits > 8
                        THEN DecodeLoopLate(str, i + 1,
                               [st EXCEPT
                                  !.value = value,
                                  !.bits = bits - 8,
                                  !.index = st.index + 1,
                                  !.output = Append(st.output,
                                               BitField(value, bits - 8, 8))])
                        ELSE DecodeLoopLate(str, i + 1,
                               [st EXCEPT !.value = value, !.bits = bits])

\* The `for` loop of base32Decode from character i (1-based) on;
\* st = [bits, value, index, output, ok, error].
RECURSIVE DecodeLoop(_, _, _)
DecodeLoop(str, i, st) ==
  IF i > Len(str) THEN st
  ELSE LET charIndex ==
             IF str[i] \in DOMAIN Base32Index THEN Base32Index[str[i]] ELSE -1
       IN  IF charIndex = -1
             THEN [st EXCEPT !.ok = FALSE, !.error = "Invalid Base32 character"]
             ELSE LET value == Shl(st.value, 5) + charIndex
                      bits  == st.bits + 5
                  IN  IF bits >= 8
                        THEN DecodeLoop(str, i + 1,
                               [st EXCEPT
                                  !.value = value,
                                  !.bits = bits - 8,
                                  !.index = st.index + 1,
                                  !.output = Append(st.output,
                                               BitField(value, bits - 8, 8))])
                        ELSE DecodeLoop(str, i + 1,
                               [st EXCEPT !.value = value, !.bits = bits])

\* DecodeRun with a fault: the bits left in the accumulator at the end are
\* written out as one more byte.
DecodeRunFlush(base32) ==
  LET st == DecodeLoop(Normalize(base32), 1,
              [bits |-> 0, value |-> 0, index |-> 0, output |-> <<>>,
               ok |-> TRUE, error |-> ""])
  IN  IF st.ok /\ st.bits > 0
        THEN [st EXCEPT
                !.index = st.index + 1,
                !.output = Append(st.output,
                             BitField(Shl(st.value, 8 - st.bits), 0, 8))]
        ELSE st

\* The whole run of base32Decode: the final loop state.
DecodeRun(base32) ==
  DecodeLoop(Normalize(base32), 1,
    [bits |-> 0, value |-> 0, index |-> 0, output |-> <<>>,
     ok |-> TRUE, error |-> ""])

\* base32Decode with a fault: padding characters are dropped with the
\* whitespace instead of being refused.
base32DecodePadded(base32) ==
  LET st == DecodeRun(SelectSeq(base32, LAMBDA ch : ch # "="))
  IN  IF st.ok THEN Ok(SubSeq(st.output, 1, st.index)) ELSE Throw(st.error)

base32Decode(base32) ==
  LET st == DecodeRun(base32)
  IN  IF st.ok THEN Ok(SubSeq(st.output, 1, st.index)) ELSE Throw(st.error)

----------------------------------------------------------------------------
(* Node's crypto.createHmac(name, key).update(msg).digest(): HMAC          *)
(* (RFC 2104) over SHA-1, SHA-256 and SHA-512 (FIPS 180-4).                *)
(*                                                                         *)
(* A 32-bit or 64-bit word is a tuple of 2 or 4 limbs of 16 bits, most     *)
(* significant first.                                                      *)

XorNib ==
  << <<0, 1, 2, 3, 4, 5, 6, 7, 8, 9, 10, 11, 12, 13, 14, 15>>,
     <<1, 0, 3, 2, 5, 4, 7, 6, 9, 8, 11, 10, 13, 12, 15, 14>>,
     <<2, 3, 0, 1, 6, 7, 4, 5, 10, 11, 8, 9, 14, 15, 12, 13>>,
     <<3, 2, 1, 0, 7, 6, 5, 4, 11, 10, 9, 8, 15, 14, 13, 12>>,
     <<4, 5, 6, 7, 0, 1, 2, 3, 12, 13, 14, 15, 8, 9, 10, 11>>,
     <<5, 4, 7, 6, 1, 0, 3, 2, 13, 12, 15, 14, 9, 8, 11, 10>>,
     <<6, 7, 4, 5, 2, 3, 0, 1, 14, 15, 12, 13, 10, 11, 8, 9>>,
     <<7, 6, 5, 4, 3, 2, 1, 0, 15, 14, 13, 12, 11, 10, 9, 8>>,
     <<8, 9, 10, 11, 12, 13, 14, 15, 0, 1, 2, 3, 4, 5, 6, 7>>,
     <<9, 8, 11, 10, 13, 12, 15, 14, 1, 0, 3, 2, 5, 4, 7, 6>>,
     <<10, 11, 8, 9, 14, 15, 12, 13, 2, 3, 0, 1, 6, 7, 4, 5>>,
     <<11, 10, 9, 8, 15, 14, 13, 12, 3, 2, 1, 0, 7, 6, 5, 4>>,
     <<12, 13, 14, 15, 8, 9, 10, 11, 4, 5, 6, 7, 0, 1, 2, 3>>,
     <<13, 12, 15, 14, 9, 8, 11, 10, 5, 4, 7, 6, 1, 0, 3, 2>>,
     <<14, 15, 12, 13, 10, 11, 8, 9, 6, 7, 4, 5, 2, 3, 0, 1>>,
     <<15, 14, 13, 12, 11, 10, 9, 8, 7, 6, 5, 4, 3, 2, 1, 0>> >>

AndNib ==
  << <<0, 0, 0, 0, 0, 0, 0, 0, 0, 0, 0, 0, 0, 0, 0, 0>>,
     <<0, 1, 0, 1, 0, 1, 0, 1, 0, 1, 0, 1, 0, 1, 0, 1>>,
     <<0, 0, 2, 2, 0, 0, 2, 2, 0, 0, 2, 2, 0, 0, 2, 2>>,
     <<0, 1, 2, 3, 0, 1, 2, 3, 0, 1, 2, 3, 0, 1, 2, 3>>,
     <<0, 0, 0, 0, 4, 4, 4, 4, 0, 0, 0, 0, 4, 4, 4, 4>>,
     <<0, 1, 0, 1, 4, 5, 4, 5, 0, 1, 0, 1, 4, 5, 4, 5>>,
     <<0, 0, 2, 2, 4, 4, 6, 6, 0, 0, 2, 2, 4, 4, 6, 6>>,
     <<0, 1, 2, 3, 4, 5, 6, 7, 0, 1, 2, 3, 4, 5, 6, 7>>,
     <<0, 0, 0, 0, 0, 0, 0, 0, 8, 8, 8, 8, 8, 8, 8, 8>>,
     <<0, 1, 0, 1, 0, 1, 0, 1, 8, 9, 8, 9, 8, 9, 8, 9>>,
     <<0, 0, 2, 2, 0, 0, 2, 2, 8, 8, 10, 10, 8, 8, 10, 10>>,
     <<0, 1, 2, 3, 0, 1, 2, 3, 8, 9, 10, 11, 8, 9, 10, 11>>,
     <<0, 0, 0, 0, 4, 4, 4, 4, 8, 8, 8, 8, 12, 12, 12, 12>>,
     <<0, 1, 0, 1, 4, 5, 4, 5, 8, 9, 8, 9, 12, 13, 12, 13>>,
     <<0, 0, 2, 2, 4, 4, 6, 6, 8, 8, 10, 10, 12, 12, 14, 14>>,
     <<0, 1, 2, 3, 4, 5, 6, 7, 8, 9, 10, 11, 12, 13, 14, 15>> >>

\* a ^ b and a & b on 16-bit limbs, four bits at a time.
Xor16(a, b) ==
    XorNib[(a \div 4096) + 1][(b \div 4096) + 1] * 4096
  + XorNib[((a \div 256) % 16) + 1][((b \div 256) % 16) + 1] * 256
  + XorNib[((a \div 16) % 16) + 1][((b \div 16) % 16) + 1] * 16
  + XorNib[(a % 16) + 1][(b % 16) + 1]

And16(a, b) ==
    AndNib[(a \div 4096) + 1][(b \div 4096) + 1] * 4096
  + AndNib[((a \div 256) % 16) + 1][((b \div 256) % 16) + 1] * 256
  + AndNib[((a \div 16) % 16) + 1][((b \div 16) % 16) + 1] * 16
  + AndNib[(a % 16) + 1][(b % 16) + 1]

\* (x & y) ^ (~x & z): the two terms share no bit, so ^ is +.
Ch16(x, y, z) == And16(x, y) + And16(65535 - x, z)

\* (x & y) ^ (x & z) ^ (y & z) = (x & y) + (z & (x ^ y)).
Maj16(x, y, z) ==
  LET xy == And16(x, y) IN xy + And16(z, (x + y) - 2 * xy)

Parity16(x, y, z) == Xor16(Xor16(x, y), z)

WXor3(a, b, c) ==
  IF Len(a) = 2
    THEN << Parity16(a[1], b[1], c[1]), Parity16(a[2], b[2], c[2]) >>
    ELSE << Parity16(a[1], b[1], c[1]), Parity16(a[2], b[2], c[2]),
            Parity16(a[3], b[3], c[3]), Parity16(a[4], b[4], c[4]) >>

WCh(a, b, c) ==
  IF Len(a) = 2
    THEN << Ch16(a[1], b[1], c[1]), Ch16(a[2], b[2], c[2]) >>
    ELSE << Ch16(a[1], b[1], c[1]), Ch16(a[2], b[2], c[2]),
            Ch16(a[3], b[3], c[3]), Ch16(a[4], b[4], c[4]) >>

WMaj(a, b, c) ==
  IF Len(a) = 2
    THEN << Maj16(a[1], b[1], c[1]), Maj16(a[2], b[2], c[2]) >>
    ELSE << Maj16(a[1], b[1], c[1]), Maj16(a[2], b[2], c[2]),
            Maj16(a[3], b[3], c[3]), Maj16(a[4], b[4], c[4]) >>

\* Addition modulo 2^32 or 2^64.
WAdd(a, b) ==
  IF Len(a) = 2
    THEN LET s2 == a[2] + b[2]
         IN  << (a[1] + b[1] + (s2 \div 65536)) % 65536, s2 % 65536 >>
    ELSE LET s4 == a[4] + b[4]
             s3 == a[3] + b[3] + (s4 \div 65536)
             s2 == a[2] + b[2] + (s3 \div 65536)
         IN  << (a[1] + b[1] + (s2 \div 65536)) % 65536,
                s2 % 65536, s3 % 65536, s4 % 65536 >>

\* One limb of a right shift by r < 16: the low bits of the limb above
\* and the high bits of the limb itself.
ShiftLimb(above, limb, r) == (limb \div (2 ^ r)) + ((above % (2 ^ r)) * (2 ^ (16 - r)))

\* Rotate right by n bits.
WRotR(w, n) ==
  LET len == Len(w)
      q   == n \div 16
      r   == n % 16
      at(k) == ShiftLimb(w[((k - q - 2) % len) + 1], w[((k - q - 1) % len) + 1], r)
  IN  IF len = 2 THEN << at(1), at(2) >> ELSE << at(1), at(2), at(3), at(4) >>

\* Shift right by n bits, zero filled.
WShr(w, n) ==
  LET q == n \div 16
      r == n % 16
      limb(j) == IF j < 1 THEN 0 ELSE w[j]
      at(k) == ShiftLimb(limb(k - q - 1), limb(k - q), r)
  IN  IF Len(w) = 2 THEN << at(1), at(2) >> ELSE << at(1), at(2), at(3), at(4) >>

\* The big-endian word of `limbs` limbs at byte i (1-based) of bytes.
WordAt(bytes, i, limbs) ==
  IF limbs = 2
    THEN << bytes[i] * 256 + bytes[i + 1], bytes[i + 2] * 256 + bytes[i + 3] >>
    ELSE << bytes[i] * 256 + bytes[i + 1], bytes[i + 2] * 256 + bytes[i + 3],
            bytes[i + 4] * 256 + bytes[i + 5], bytes[i + 6] * 256 + bytes[i + 7] >>

\* The big-endian bytes of a sequence of words.
RECURSIVE WordsToBytes(_)
WordsToBytes(ws) ==
  IF ws = <<>> THEN <<>>
  ELSE LET w == Head(ws)
       IN  (IF Len(w) = 2
              THEN << w[1] \div 256, w[1] % 256, w[2] \div 256, w[2] % 256 >>
              ELSE << w[1] \div 256, w[1] % 256, w[2] \div 256, w[2] % 256,
                      w[3] \div 256, w[3] % 256, w[4] \div 256, w[4] % 256 >>)
           \o WordsToBytes(Tail(ws))

\* The first 16 words of the message schedule: the block itself.
RECURSIVE BlockWords(_, _, _)
BlockWords(block, limbs, w) ==
  IF Len(w) = 16 THEN w
  ELSE BlockWords(block, limbs,
         Append(w, WordAt(block, (2 * limbs * Len(w)) + 1, limbs)))

\* Message padding: 0x80, zeros, and the bit length in the last 8 (block
\* of 64 bytes) or 16 (block of 128 bytes) bytes.
Pad(msg, blockBytes) ==
  LET n     == Len(msg)
      field == blockBytes \div 8
      zeros == ((2 * blockBytes) - 1 - field - n) % blockBytes
      bits  == n * 8
  IN  msg \o <<128>> \o [k \in 1..(zeros + field - 4) |-> 0]
          \o << bits \div 16777216, (bits \div 65536) % 256,
                (bits \div 256) % 256, bits % 256 >>

(* SHA-1 *)

Sha1H0 ==
  << <<26437, 8961>>, <<61389, 43913>>, <<39098, 56574>>, <<4146, 21622>>,
     <<50130, 57840>> >>

Sha1K(t) ==
  IF t < 20 THEN <<23170, 31129>>
  ELSE IF t < 40 THEN <<28377, 60321>>
  ELSE IF t < 60 THEN <<36635, 48348>>
  ELSE <<51810, 49622>>

Sha1F(t, b, c, d) ==
  IF t < 20 THEN WCh(b, c, d)
  ELSE IF t < 40 THEN WXor3(b, c, d)
  ELSE IF t < 60 THEN WMaj(b, c, d)
  ELSE WXor3(b, c, d)

RECURSIVE Sha1Schedule(_)
Sha1Schedule(w) ==
  IF Len(w) = 80 THEN w
  ELSE LET t == Len(w) + 1
       IN  Sha1Schedule(Append(w,
             WRotR(WXor3(WXor3(w[t - 3], w[t - 8], w[t - 14]),
                         w[t - 16], <<0, 0>>), 31)))

\* The 80 rounds; s = [t, r] with r the registers <<a, b, c, d, e>>.
RECURSIVE Sha1Rounds(_, _)
Sha1Rounds(w, s) ==
  IF s.t = 80 THEN s.r
  ELSE LET r == s.r
           temp == WAdd(WAdd(WAdd(WAdd(WRotR(r[1], 27),
                                       Sha1F(s.t, r[2], r[3], r[4])),
                                  r[5]), Sha1K(s.t)), w[s.t + 1])
       IN  Sha1Rounds(w, [t |-> s.t + 1,
                          r |-> << temp, r[1], WRotR(r[2], 2), r[3], r[4] >>])

Sha1Block(h, block) ==
  LET w == Sha1Schedule(BlockWords(block, 2, <<>>))
      r == Sha1Rounds(w, [t |-> 0, r |-> h])
  IN  << WAdd(h[1], r[1]), WAdd(h[2], r[2]), WAdd(h[3], r[3]),
         WAdd(h[4], r[4]), WAdd(h[5], r[5]) >>

(* SHA-256 and SHA-512 *)

Sha256 ==
  [ limbs |-> 2, block |-> 64, rounds |-> 64,
    S0 |-> <<2, 13, 22>>, S1 |-> <<6, 11, 25>>,
    s0 |-> <<7, 18, 3>>, s1 |-> <<17, 19, 10>>,
    H0 |->
  << <<27145, 58983>>, <<47975, 44677>>, <<15470, 62322>>, <<42319, 62778>>,
     <<20750, 21119>>, <<39685, 26764>>, <<8067, 55723>>, <<23520, 52505>> >>,
    K |->
  << <<17034, 12184>>, <<28983, 17553>>, <<46528, 64463>>, <<59829, 56229>>,
     <<14678, 49755>>, <<23025, 4593>>, <<37439, 33444>>, <<43804, 24277>>,
     <<55303, 43672>>, <<4739, 23297>>, <<9265, 34238>>, <<21772, 32195>>,
     <<29374, 23924>>, <<32990, 45566>>, <<39900, 1703>>, <<49563, 61812>>,
     <<58523, 27073>>, <<61374, 18310>>, <<4033, 40390>>, <<9228, 41420>>,
     <<11753, 11375>>, <<19060, 33962>>, <<23728, 43484>>, <<30457, 35034>>,
     <<38974, 20818>>, <<43057, 50797>>, <<45059, 10184>>, <<48985, 32711>>,
     <<50912, 3059>>, <<54695, 37191>>, <<1738, 25425>>, <<5161, 10599>>,
     <<10167, 2693>>, <<11803, 8504>>, <<19756, 28156>>, <<21304, 3347>>,
     <<25866, 29524>>, <<30314, 2747>>, <<33218, 51502>>, <<37490, 11397>>,
     <<41663, 59553>>, <<43034, 26187>>, <<49739, 35696>>, <<51052, 20899>>,
     <<53650, 59417>>, <<54937, 1572>>, <<62478, 13701>>, <<4202, 41072>>,
     <<6564, 49430>>, <<7735, 27656>>, <<10056, 30540>>, <<13488, 48309>>,
     <<14620, 3251>>, <<20184, 43594>>, <<23452, 51791>>, <<26670, 28659>>,
     <<29839, 33518>>, <<30885, 25455>>, <<33992, 30740>>, <<36039, 520>>,
     <<37054, 65530>>, <<42064, 27883>>, <<48889, 41975>>, <<50801, 30962>> >> ]

Sha512 ==
  [ limbs |-> 4, block |-> 128, rounds |-> 80,
    S0 |-> <<28, 34, 39>>, S1 |-> <<14, 18, 41>>,
    s0 |-> <<1, 8, 7>>, s1 |-> <<19, 61, 6>>,
    H0 |->
  << <<27145, 58983, 62396, 51464>>, <<47975, 44677, 33994, 42811>>, <<15470,
     62322, 65172, 63531>>, <<42319, 62778, 24349, 14065>>, <<20750, 21119,
     44518, 33489>>, <<39685, 26764, 11070, 27679>>, <<8067, 55723, 64321,
     48491>>, <<23520, 52505, 4990, 8569>> >>,
    K |->
  << <<17034, 12184, 55080, 44578>>, <<28983, 17553, 9199, 26061>>, <<46528,
     64463, 60493, 15151>>, <<59829, 56229, 33161, 56252>>, <<14678, 49755,
     62280, 46392>>, <<23025, 4593, 46597, 53273>>, <<37439, 33444, 44825,
     20379>>, <<43804, 24277, 55917, 33048>>, <<55303, 43672, 41731, 578>>,
     <<4739, 23297, 17776, 28606>>, <<9265, 34238, 20196, 45708>>, <<21772,
     32195, 54783, 46306>>, <<29374, 23924, 62075, 35183>>, <<32990, 45566,
     15126, 38577>>, <<39900, 1703, 9671, 4661>>, <<49563, 61812, 53097,
     9876>>, <<58523, 27073, 40689, 19154>>, <<61374, 18310, 14415, 9699>>,
     <<4033, 40390, 35724, 54709>>, <<9228, 41420, 30636, 40037>>, <<11753,
     11375, 22827, 629>>, <<19060, 33962, 28326, 58499>>, <<23728, 43484,
     48449, 64468>>, <<30457, 35034, 33553, 21429>>, <<38974, 20818, 61030,
     57259>>, <<43057, 50797, 11700, 12816>>, <<45059, 10184, 39163, 8511>>,
     <<48985, 32711, 48879, 3812>>, <<50912, 3059, 15784, 36802>>, <<54695,
     37191, 37642, 42789>>, <<1738, 25425, 57347, 33391>>, <<5161, 10599, 2574,
     28272>>, <<10167, 2693, 18130, 12284>>, <<11803, 8504, 23590, 51494>>,
     <<19756, 28156, 23236, 10989>>, <<21304, 3347, 40341, 46047>>, <<25866,
     29524, 35759, 25566>>, <<30314, 2747, 15479, 45736>>, <<33218, 51502,
     18413, 44774>>, <<37490, 11397, 5250, 13627>>, <<41663, 59553, 19697,
     868>>, <<43034, 26187, 48194, 12289>>, <<49739, 35696, 53496, 38801>>,
     <<51052, 20899, 1620, 48688>>, <<53650, 59417, 55023, 21016>>, <<54937,
     1572, 21861, 43280>>, <<62478, 13701, 22385, 8234>>, <<4202, 41072, 12987,
     53688>>, <<6564, 49430, 47314, 53448>>, <<7735, 27656, 20801, 43859>>,
     <<10056, 30540, 57230, 60313>>, <<13488, 48309, 57755, 18600>>, <<14620,
     3251, 50633, 23139>>, <<20184, 43594, 58177, 35531>>, <<23452, 51791,
     30563, 58227>>, <<26670, 28659, 54962, 47267>>, <<29839, 33518, 24047,
     45820>>, <<30885, 25455, 17175, 12128>>, <<33992, 30740, 41456, 43890>>,
     <<36039, 520, 6756, 14828>>, <<37054, 65530, 9059, 7720>>, <<42064, 27883,
     56962, 48617>>, <<48889, 41975, 45766, 30997>>, <<50801, 30962, 58226,
     21291>>, <<51751, 16078, 59942, 24988>>, <<53638, 47303, 8640, 49671>>,
     <<60122, 32214, 52704, 60190>>, <<62845, 20351, 61038, 53624>>, <<1776,
     26538, 29207, 28602>>, <<2659, 32197, 41672, 39078>>, <<4415, 38916,
     48889, 3502>>, <<7025, 2869, 4892, 18203>>, <<10459, 30709, 8964, 32132>>,
     <<13002, 43899, 16583, 9363>>, <<15518, 48650, 5577, 48828>>, <<17181,
     26564, 39952, 3404>>, <<19653, 54462, 52030, 17078>>, <<22911, 10652,
     64613, 32298>>, <<24523, 28587, 15062, 64236>>, <<27716, 6540, 19015,
     22551>> >> ]

BigSigma(x, c) == WXor3(WRotR(x, c[1]), WRotR(x, c[2]), WRotR(x, c[3]))
SmallSigma(x, c) == WXor3(WRotR(x, c[1]), WRotR(x, c[2]), WShr(x, c[3]))

RECURSIVE Sha2Schedule(_, _)
Sha2Schedule(p, w) ==
  IF Len(w) = p.rounds THEN w
  ELSE LET t == Len(w) + 1
       IN  Sha2Schedule(p, Append(w,
             WAdd(WAdd(SmallSigma(w[t - 2], p.s1), w[t - 7]),
                  WAdd(SmallSigma(w[t - 15], p.s0), w[t - 16]))))

\* The rounds; s = [t, r] with r the registers <<a, b, c, d, e, f, g, h>>.
RECURSIVE Sha2Rounds(_, _, _)
Sha2Rounds(p, w, s) ==
  IF s.t = p.rounds THEN s.r
  ELSE LET r  == s.r
           t1 == WAdd(WAdd(WAdd(r[8], BigSigma(r[5], p.S1)),
                           WAdd(WCh(r[5], r[6], r[7]), p.K[s.t + 1])),
                      w[s.t + 1])
           t2 == WAdd(BigSigma(r[1], p.S0), WMaj(r[1], r[2], r[3]))
       IN  Sha2Rounds(p, w, [t |-> s.t + 1,
                             r |-> << WAdd(t1, t2), r[1], r[2], r[3],
                                      WAdd(r[4], t1), r[5], r[6], r[7] >>])

Sha2Block(p, h, block) ==
  LET w == Sha2Schedule(p, BlockWords(block, p.limbs, <<>>))
      r == Sha2Rounds(p, w, [t |-> 0, r |-> h])
  IN  << WAdd(h[1], r[1]), WAdd(h[2], r[2]), WAdd(h[3], r[3]),
         WAdd(h[4], r[4]), WAdd(h[5], r[5]), WAdd(h[6], r[6]),
         WAdd(h[7], r[7]), WAdd(h[8], r[8]) >>

\* The block size in bytes of a hash of node's crypto module.
BlockBytes(name) == IF name = "sha512" THEN 128 ELSE 64

\* The compression of the padded message, block after block;
\* s = [h, rest].
RECURSIVE HashBlocks(_, _)
HashBlocks(name, s) ==
  IF s.rest = <<>> THEN s.h
  ELSE LET n     == BlockBytes(name)
           block == SubSeq(s.rest, 1, n)
       IN  HashBlocks(name,
             [h |-> IF name = "sha1" THEN Sha1Block(s.h, block)
                    ELSE IF name = "sha256" THEN Sha2Block(Sha256, s.h, block)
                    ELSE Sha2Block(Sha512, s.h, block),
              rest |-> SubSeq(s.rest, n + 1, Len(s.rest))])

\* crypto.createHash(name).update(msg).digest()
Hash(name, msg) ==
  WordsToBytes(HashBlocks(name,
    [h |-> IF name = "sha1" THEN Sha1H0
           ELSE IF name = "sha256" THEN Sha256.H0 ELSE Sha512.H0,
     rest |-> Pad(msg, BlockBytes(name))]))

\* crypto.createHmac(name, key).update(msg).digest()
Hmac(name, key, msg) ==
  LET n    == BlockBytes(name)
      k0   == IF Len(key) > n THEN Hash(name, key) ELSE key
      k    == k0 \o [j \in 1..(n - Len(k0)) |-> 0]
      ipad == [j \in 1..n |-> Xor16(k[j], 54)]
      opad == [j \in 1..n |-> Xor16(k[j], 92)]
  IN  Hash(name, opad \o Hash(name, ipad \o msg))

----------------------------------------------------------------------------
(* src/totp.ts                                                             *)

\* A call's outcome: the value returned or the error thrown, and the
\* computations the call went through before it ended.
Ret(v, steps) == [ok |-> TRUE, value |-> v, steps |-> steps]
Raise(e, steps) == [ok |-> FALSE, error |-> e, steps |-> steps]

\* String.prototype.charCodeAt as a table: the code of each character the
\* model uses (tab, line feed and the printable ASCII characters).
CharCodes ==
  ("\t" :> 9) @@ ("\n" :> 10) @@ (" " :> 32) @@ ("!" :> 33) @@ ("\"" :> 34)
   @@ ("#" :> 35) @@ ("$" :> 36) @@ ("%" :> 37) @@ ("&" :> 38)
   @@ ("'" :> 39) @@ ("(" :> 40) @@ (")" :> 41) @@ ("*" :> 42)
   @@ ("+" :> 43) @@ ("," :> 44) @@ ("-" :> 45) @@ ("." :> 46)
   @@ ("/" :> 47) @@ ("0" :> 48) @@ ("1" :> 49) @@ ("2" :> 50)
   @@ ("3" :> 51) @@ ("4" :> 52) @@ ("5" :> 53) @@ ("6" :> 54)
   @@ ("7" :> 55) @@ ("8" :> 56) @@ ("9" :> 57) @@ (":" :> 58)
   @@ (";" :> 59) @@ ("<" :> 60) @@ ("=" :> 61) @@ (">" :> 62)
   @@ ("?" :> 63) @@ ("@" :> 64) @@ ("A" :> 65) @@ ("B" :> 66)
   @@ ("C" :> 67) @@ ("D" :> 68) @@ ("E" :> 69) @@ ("F" :> 70)
   @@ ("G" :> 71) @@ ("H" :> 72) @@ ("I" :> 73) @@ ("J" :> 74)
   @@ ("K" :> 75) @@ ("L" :> 76) @@ ("M" :> 77) @@ ("N" :> 78)
   @@ ("O" :> 79) @@ ("P" :> 80) @@ ("Q" :> 81) @@ ("R" :> 82)
   @@ ("S" :> 83) @@ ("T" :> 84) @@ ("U" :> 85) @@ ("V" :> 86)
   @@ ("W" :> 87) @@ ("X" :> 88) @@ ("Y" :> 89) @@ ("Z" :> 90)
   @@ ("[" :> 91) @@ ("\\" :> 92) @@ ("]" :> 93) @@ ("^" :> 94)
   @@ ("_" :> 95) @@ ("a" :> 97) @@ ("b" :> 98) @@ ("c" :> 99)
   @@ ("d" :> 100) @@ ("e" :> 101) @@ ("f" :> 102) @@ ("g" :> 103)
   @@ ("h" :> 104) @@ ("i" :> 105) @@ ("j" :> 106) @@ ("k" :> 107)
   @@ ("l" :> 108) @@ ("m" :> 109) @@ ("n" :> 110) @@ ("o" :> 111)
   @@ ("p" :> 112) @@ ("q" :> 113) @@ ("r" :> 114) @@ ("s" :> 115)
   @@ ("t" :> 116) @@ ("u" :> 117) @@ ("v" :> 118) @@ ("w" :> 119)
   @@ ("x" :> 120) @@ ("y" :> 121) @@ ("z" :> 122) @@ ("{" :> 123)
   @@ ("|" :> 124) @@ ("}" :> 125) @@ ("~" :> 126)

CharCode(ch) == CharCodes[ch]

\* x | y on 16-bit values, as character codes are.
Or16(x, y) == (x + y) - And16(x, y)

\* constantTimeCompare, one step at a time; s = [pc, a, b, i, result, ret].
\* pc "length" is the length test, "loop" the head of the for loop, "done"
\* the return.
CmpStart(a, b) ==
  [pc |-> "length", a |-> a, b |-> b, i |-> 0, result |-> 0, ret |-> FALSE]

\* CmpStep with a fault: the loop ends at the first position that differs.
CmpStepEarlyExit(s) ==
  IF s.pc = "length"
    THEN IF Len(s.a) # Len(s.b)
           THEN [s EXCEPT !.pc = "done", !.ret = FALSE]
           ELSE [s EXCEPT !.pc = "loop", !.result = 0, !.i = 0]
  ELSE IF s.pc = "loop"
    THEN IF s.i < Len(s.a)
           THEN IF s.a[s.i + 1] # s.b[s.i + 1]
                  THEN [s EXCEPT !.pc = "done", !.ret = FALSE]
                  ELSE [s EXCEPT !.i = s.i + 1]
           ELSE [s EXCEPT !.pc = "done", !.ret = (s.result = 0)]
  ELSE s

CmpStep(s) ==
  IF s.pc = "length"
    THEN IF Len(s.a) # Len(s.b)
           THEN [s EXCEPT !.pc = "done", !.ret = FALSE]
           ELSE [s EXCEPT !.pc = "loop", !.result = 0, !.i = 0]
  ELSE IF s.pc = "loop"
    THEN IF s.i < Len(s.a)
           THEN [s EXCEPT
                   !.result = Or16(s.result,
                                Xor16(CharCode(s.a[s.i + 1]),
                                      CharCode(s.b[s.i + 1]))),
                   !.i = s.i + 1]
           ELSE [s EXCEPT !.pc = "done", !.ret = (s.result = 0)]
  ELSE s

RECURSIVE CmpRun(_)
CmpRun(s) == IF s.pc = "done" THEN s ELSE CmpRun(CmpStep(s))

\* constantTimeCompare with a fault: only the lengths are compared.
constantTimeCompareLengths(a, b) == Len(a) = Len(b)

constantTimeCompare(a, b) == CmpRun(CmpStart(a, b)).ret

algoMap ==
  ("SHA-1" :> "sha1") @@ ("SHA-256" :> "sha256") @@ ("SHA-512" :> "sha512")

\* A bigint is <<h, m, l>>, standing for h * 2^48 + m * 2^24 + l with m and
\* l in 0 .. 2^24 - 1 and h of either sign.
Limb == 16777216

\* BigInt(n) for an integer n.
BigInt(n) == << (n \div Limb) \div Limb, (n \div Limb) % Limb, n % Limb >>

\* Number(counterValue & 0xffn)
LowByte(counterValue) == counterValue[3] % 256

\* counterValue >> 8n
ShiftRight8(counterValue) ==
  << counterValue[1] \div 256,
     (counterValue[2] \div 256) + ((counterValue[1] % 256) * 65536),
     (counterValue[3] \div 256) + ((counterValue[2] % 256) * 65536) >>

\* The loop that fills counterBuffer from its last byte to its first;
\* s = [i, counterValue, counterBuffer].
RECURSIVE CounterLoop(_)
CounterLoop(s) ==
  IF s.i < 0 THEN s.counterBuffer
  ELSE CounterLoop(
         [i |-> s.i - 1,
          counterValue |-> ShiftRight8(s.counterValue),
          counterBuffer |->
            [s.counterBuffer EXCEPT ![s.i + 1] = LowByte(s.counterValue)]])

\* CounterBuffer with a fault: the counter goes through a 32-bit signed
\* integer, which keeps its low 32 bits and extends their sign.
CounterBufferInt32(counter) ==
  LET top == counter[2] % 256
      low == IF top >= 128
               THEN ((top - 256) * Limb) + counter[3]
               ELSE (top * Limb) + counter[3]
  IN  CounterLoop([i |-> 7, counterValue |-> BigInt(low),
                   counterBuffer |-> <<0, 0, 0, 0, 0, 0, 0, 0>>])

CounterBuffer(counter) ==
  CounterLoop([i |-> 7, counterValue |-> counter,
               counterBuffer |-> <<0, 0, 0, 0, 0, 0, 0, 0>>])

\* The secrets the calls use, as Base32 text, and their keys.
RfcSecret ==
  << "G", "E", "Z", "D", "G", "N", "B", "V", "G", "Y", "3", "T", "Q", "O",
     "J", "Q", "G", "E", "Z", "D", "G", "N", "B", "V", "G", "Y", "3", "T",
     "Q", "O", "J", "Q" >>

ShortSecret ==
  << "J", "B", "S", "W", "Y", "3", "D", "P" >>

\* The bytes RfcSecret and ShortSecret decode to.
RfcKey ==
  << 49, 50, 51, 52, 53, 54, 55, 56, 57, 48,
     49, 50, 51, 52, 53, 54, 55, 56, 57, 48 >>

ShortKey ==
  << 72, 101, 108, 108, 111 >>

\* Twenty bytes of 255, which encode to thirty-two "7".
FullKey ==
  << 255, 255, 255, 255, 255, 255, 255, 255, 255, 255,
     255, 255, 255, 255, 255, 255, 255, 255, 255, 255 >>

Digest(name, key, message, digest) == <<name, key, message>> :> digest

\* The digests of the keys and counter buffers the calls reach, tabulated:
\* HMAC-SHA-1 under both keys, HMAC-SHA-256 and HMAC-SHA-512 under the RFC key
\* on counter 1.  Each is the value of Hmac on its entry (DigestAgrees).
Digests ==
  Digest("sha1", RfcKey, << 255, 255, 255, 255, 255, 255, 255, 251 >>,
       << 148, 248, 161, 183, 23, 39, 80, 205, 131, 47, 153, 89, 118, 221,
          42, 51, 28, 141, 53, 10 >>)
  @@ Digest("sha1", RfcKey, << 255, 255, 255, 255, 255, 255, 255, 252 >>,
       << 207, 131, 245, 209, 150, 38, 37, 232, 217, 121, 247, 56, 40, 28,
          150, 242, 28, 131, 27, 155 >>)
  @@ Digest("sha1", RfcKey, << 255, 255, 255, 255, 255, 255, 255, 253 >>,
       << 43, 93, 252, 216, 60, 168, 159, 148, 61, 189, 144, 157, 240, 54,
          105, 38, 167, 19, 86, 17 >>)
  @@ Digest("sha1", RfcKey, << 255, 255, 255, 255, 255, 255, 255, 254 >>,
       << 53, 17, 69, 204, 220, 7, 76, 170, 127, 238, 197, 215, 62, 145,
          231, 251, 173, 251, 50, 179 >>)
  @@ Digest("sha1", RfcKey, << 255, 255, 255, 255, 255, 255, 255, 255 >>,
       << 246, 22, 253, 102, 183, 240, 98, 144, 104, 107, 99, 32, 206, 179,
          77, 101, 177, 254, 147, 234 >>)
  @@ Digest("sha1", RfcKey, << 0, 0, 0, 0, 0, 0, 0, 0 >>,
       << 204, 147, 207, 24, 80, 141, 148, 147, 76, 100, 182, 93, 139, 167,
          102, 127, 183, 205, 228, 176 >>)
  @@ Digest("sha1", RfcKey, << 0, 0, 0, 0, 0, 0, 0, 1 >>,
       << 117, 164, 138, 25, 212, 203, 225, 0, 100, 78, 138, 193, 57, 126,
          234, 116, 122, 45, 51, 171 >>)
  @@ Digest("sha1", RfcKey, << 0, 0, 0, 0, 0, 0, 0, 2 >>,
       << 11, 172, 183, 250, 8, 47, 239, 48, 120, 34, 17, 147, 139, 193,
          197, 231, 4, 22, 255, 68 >>)
  @@ Digest("sha1", RfcKey, << 0, 0, 0, 0, 0, 0, 0, 3 >>,
       << 102, 194, 130, 39, 208, 58, 45, 85, 41, 38, 47, 240, 22, 161,
          230, 239, 118, 85, 126, 206 >>)
  @@ Digest("sha1", RfcKey, << 0, 0, 0, 0, 0, 0, 0, 4 >>,
       << 169, 4, 201, 0, 166, 75, 53, 144, 152, 116, 179, 62, 97, 197,
          147, 138, 142, 21, 237, 28 >>)
  @@ Digest("sha1", RfcKey, << 0, 0, 0, 0, 0, 0, 0, 5 >>,
       << 163, 126, 120, 61, 123, 114, 51, 192, 131, 212, 246, 41, 38, 199,
          162, 95, 35, 141, 3, 22 >>)
  @@ Digest("sha1", RfcKey, << 0, 0, 0, 0, 0, 0, 0, 6 >>,
       << 188, 156, 210, 133, 97, 4, 44, 131, 242, 25, 50, 77, 60, 96, 114,
          86, 192, 50, 114, 174 >>)
  @@ Digest("sha1", RfcKey, << 0, 0, 0, 0, 1, 26, 145, 241 >>,
       << 139, 181, 78, 210, 76, 15, 81, 180, 44, 19, 153, 97, 85, 202,
          118, 48, 103, 101, 46, 196 >>)
  @@ Digest("sha1", RfcKey, << 0, 0, 0, 0, 1, 26, 145, 242 >>,
       << 206, 16, 220, 188, 123, 241, 224, 124, 12, 139, 243, 109, 255,
          225, 153, 18, 171, 60, 65, 101 >>)
  @@ Digest("sha1", RfcKey, << 0, 0, 0, 0, 1, 26, 145, 243 >>,
       << 207, 207, 13, 70, 152, 116, 75, 209, 58, 35, 159, 101, 235, 4,
          44, 180, 101, 38, 75, 129 >>)
  @@ Digest("sha1", RfcKey, << 0, 0, 0, 0, 1, 26, 145, 244 >>,
       << 8, 81, 147, 73, 129, 64, 146, 237, 44, 198, 77, 250, 183, 225,
          116, 231, 201, 10, 150, 139 >>)
  @@ Digest("sha1", RfcKey, << 0, 0, 0, 0, 1, 26, 145, 245 >>,
       << 106, 67, 232, 23, 14, 210, 123, 197, 46, 84, 187, 161, 151, 114,
          242, 34, 187, 143, 49, 13 >>)
  @@ Digest("sha1", RfcKey, << 0, 0, 0, 0, 1, 26, 145, 246 >>,
       << 113, 140, 247, 17, 247, 117, 87, 215, 194, 147, 10, 139, 158,
          244, 206, 94, 27, 176, 217, 60 >>)
  @@ Digest("sha1", RfcKey, << 0, 0, 0, 0, 1, 26, 145, 247 >>,
       << 213, 87, 19, 139, 203, 69, 174, 13, 245, 86, 88, 217, 5, 241,
          112, 1, 126, 74, 93, 184 >>)
  @@ Digest("sha1", RfcKey, << 0, 0, 0, 0, 1, 26, 145, 248 >>,
       << 0, 240, 216, 184, 238, 163, 29, 240, 130, 230, 245, 119, 237,
          222, 5, 221, 200, 58, 233, 226 >>)
  @@ Digest("sha1", RfcKey, << 0, 0, 0, 0, 1, 26, 145, 249 >>,
       << 49, 96, 134, 169, 123, 76, 19, 127, 166, 141, 34, 16, 119, 179,
          58, 68, 147, 130, 158, 190 >>)
  @@ Digest("sha1", RfcKey, << 0, 0, 0, 0, 1, 26, 145, 250 >>,
       << 150, 151, 93, 225, 40, 197, 185, 77, 137, 120, 206, 209, 190,
          174, 62, 232, 157, 146, 198, 158 >>)
  @@ Digest("sha1", RfcKey, << 0, 0, 0, 0, 1, 26, 145, 251 >>,
       << 145, 213, 230, 239, 239, 122, 139, 133, 177, 150, 140, 76, 234,
          151, 175, 163, 35, 131, 164, 178 >>)
  @@ Digest("sha1", RfcKey, << 0, 0, 0, 0, 2, 53, 35, 231 >>,
       << 159, 135, 192, 155, 75, 158, 123, 122, 72, 56, 3, 68, 110, 159,
          195, 47, 221, 112, 78, 116 >>)
  @@ Digest("sha1", RfcKey, << 0, 0, 0, 0, 2, 53, 35, 232 >>,
       << 49, 119, 253, 225, 203, 157, 136, 27, 71, 200, 70, 170, 121, 243,
          211, 0, 24, 106, 231, 83 >>)
  @@ Digest("sha1", RfcKey, << 0, 0, 0, 0, 2, 53, 35, 233 >>,
       << 30, 45, 30, 73, 75, 182, 205, 13, 13, 129, 223, 48, 105, 94, 10,
          249, 21, 236, 228, 169 >>)
  @@ Digest("sha1", RfcKey, << 0, 0, 0, 0, 2, 53, 35, 234 >>,
       << 2, 131, 158, 199, 80, 50, 9, 147, 66, 43, 28, 218, 244, 30, 107,
          199, 128, 194, 179, 236 >>)
  @@ Digest("sha1", RfcKey, << 0, 0, 0, 0, 2, 53, 35, 235 >>,
       << 239, 80, 252, 142, 195, 213, 180, 22, 230, 97, 209, 7, 40, 105,
          165, 144, 83, 122, 117, 162 >>)
  @@ Digest("sha1", RfcKey, << 0, 0, 0, 0, 2, 53, 35, 236 >>,
       << 39, 140, 2, 229, 54, 16, 248, 76, 64, 189, 145, 53, 172, 212, 16,
          16, 18, 65, 10, 20 >>)
  @@ Digest("sha1", RfcKey, << 0, 0, 0, 0, 2, 53, 35, 237 >>,
       << 176, 9, 43, 33, 208, 72, 175, 32, 157, 160, 161, 221, 212, 152,
          173, 232, 167, 148, 135, 237 >>)
  @@ Digest("sha1", RfcKey, << 0, 0, 0, 0, 2, 53, 35, 238 >>,
       << 28, 48, 92, 150, 148, 133, 24, 7, 48, 11, 194, 137, 103, 119,
          142, 211, 219, 19, 90, 116 >>)
  @@ Digest("sha1", RfcKey, << 0, 0, 0, 0, 2, 53, 35, 239 >>,
       << 203, 75, 77, 218, 204, 126, 217, 139, 95, 135, 153, 197, 100, 75,
          42, 220, 23, 190, 140, 214 >>)
  @@ Digest("sha1", RfcKey, << 0, 0, 0, 0, 2, 53, 35, 240 >>,
       << 3, 151, 83, 90, 232, 34, 190, 126, 116, 58, 241, 117, 147, 212,
          153, 211, 87, 6, 106, 242 >>)
  @@ Digest("sha1", RfcKey, << 0, 0, 0, 0, 2, 53, 35, 241 >>,
       << 131, 157, 72, 143, 57, 43, 111, 4, 37, 246, 237, 118, 25, 172,
          54, 98, 237, 217, 137, 111 >>)
  @@ Digest("sha1", ShortKey, << 255, 255, 255, 255, 255, 255, 255, 252 >>,
       << 152, 59, 115, 9, 91, 201, 126, 46, 117, 62, 185, 164, 199, 242,
          239, 158, 100, 1, 138, 32 >>)
  @@ Digest("sha1", ShortKey, << 255, 255, 255, 255, 255, 255, 255, 253 >>,
       << 16, 83, 124, 47, 73, 41, 169, 143, 86, 177, 140, 46, 200, 60,
          104, 10, 149, 16, 152, 96 >>)
  @@ Digest("sha1", ShortKey, << 255, 255, 255, 255, 255, 255, 255, 254 >>,
       << 141, 254, 59, 76, 140, 82, 123, 25, 13, 56, 102, 46, 53, 21, 213,
          109, 161, 31, 80, 76 >>)
  @@ Digest("sha1", ShortKey, << 255, 255, 255, 255, 255, 255, 255, 255 >>,
       << 8, 12, 134, 191, 100, 222, 255, 198, 130, 126, 164, 190, 130, 76,
          50, 143, 59, 37, 224, 230 >>)
  @@ Digest("sha1", ShortKey, << 0, 0, 0, 0, 0, 0, 0, 0 >>,
       << 79, 3, 224, 150, 35, 247, 98, 83, 147, 16, 217, 188, 231, 38,
          149, 107, 181, 161, 111, 193 >>)
  @@ Digest("sha1", ShortKey, << 0, 0, 0, 0, 0, 0, 0, 1 >>,
       << 46, 64, 176, 194, 174, 132, 25, 10, 10, 53, 39, 253, 57, 113,
          101, 92, 206, 187, 217, 164 >>)
  @@ Digest("sha1", ShortKey, << 0, 0, 0, 0, 0, 0, 0, 2 >>,
       << 202, 15, 28, 239, 26, 140, 173, 213, 5, 106, 223, 173, 218, 26,
          125, 204, 79, 65, 234, 11 >>)
  @@ Digest("sha1", ShortKey, << 0, 0, 0, 0, 0, 0, 0, 3 >>,
       << 160, 95, 189, 177, 69, 150, 89, 131, 136, 227, 56, 106, 128, 80,
          36, 91, 247, 35, 238, 252 >>)
  @@ Digest("sha1", ShortKey, << 0, 0, 0, 0, 0, 0, 0, 4 >>,
       << 179, 17, 126, 252, 105, 197, 71, 60, 25, 118, 184, 183, 182, 159,
          184, 255, 77, 47, 229, 54 >>)
  @@ Digest("sha1", ShortKey, << 0, 0, 0, 0, 0, 0, 0, 5 >>,
       << 68, 18, 194, 160, 97, 46, 85, 110, 119, 146, 17, 29, 46, 116, 46,
          185, 100, 22, 34, 173 >>)
  @@ Digest("sha1", ShortKey, << 0, 0, 0, 0, 0, 0, 0, 6 >>,
       << 249, 86, 160, 5, 61, 142, 245, 70, 194, 18, 75, 160, 23, 132,
          156, 41, 176, 123, 226, 72 >>)
  @@ Digest("sha1", ShortKey, << 0, 0, 0, 0, 1, 26, 145, 246 >>,
       << 191, 243, 215, 106, 141, 43, 182, 150, 242, 100, 145, 216, 199,
          193, 101, 84, 47, 140, 46, 20 >>)
  @@ Digest("sha1", ShortKey, << 0, 0, 0, 0, 2, 53, 35, 236 >>,
       << 29, 209, 221, 181, 224, 39, 28, 163, 208, 249, 177, 32, 203, 177,
          64, 174, 43, 190, 25, 15 >>)
  @@ Digest("sha256", RfcKey, << 0, 0, 0, 0, 0, 0, 0, 1 >>,
       << 236, 157, 79, 104, 123, 78, 254, 106, 204, 82, 16, 6, 114, 102,
          11, 132, 192, 231, 33, 11, 160, 56, 33, 65, 248, 236, 185, 7,
          150, 202, 185, 18 >>)
  @@ Digest("sha512", RfcKey, << 0, 0, 0, 0, 0, 0, 0, 1 >>,
       << 104, 160, 217, 252, 127, 107, 200, 227, 6, 10, 76, 167, 153, 150,
          3, 182, 195, 93, 74, 247, 178, 158, 24, 197, 79, 79, 145, 140,
          36, 64, 180, 123, 109, 142, 43, 43, 70, 223, 37, 241, 36, 48,
          104, 169, 38, 45, 129, 200, 135, 158, 7, 213, 73, 145, 165, 236,
          120, 61, 183, 56, 75, 11, 145, 13 >>)
  @@ Digest("sha1", << 0 >>, << 0, 0, 0, 0, 0, 0, 0, 0 >>,
       << 218, 182, 154, 217, 142, 40, 118, 79, 151, 126, 226, 72, 126, 79,
          63, 104, 115, 178, 162, 151 >>)
  @@ Digest("sha1", << 0 >>, << 0, 0, 0, 0, 0, 0, 0, 1 >>,
       << 238, 176, 11, 11, 204, 134, 70, 121, 255, 45, 141, 211, 11, 236, 73,
          92, 181, 242, 238, 158 >>)
  @@ Digest("sha1", << 0 >>, << 0, 0, 0, 0, 0, 0, 0, 2 >>,
       << 177, 111, 139, 209, 46, 204, 48, 149, 241, 100, 19, 190, 113, 82,
          213, 229, 8, 196, 23, 206 >>)
  @@ Digest("sha1", << 0 >>, << 0, 0, 0, 0, 2, 53, 35, 235 >>,
       << 42, 150, 43, 88, 200, 4, 170, 198, 95, 60, 234, 120, 138, 182, 219,
          166, 205, 174, 215, 134 >>)
  @@ Digest("sha1", << 0 >>, << 0, 0, 0, 0, 2, 53, 35, 236 >>,
       << 223, 52, 0, 150, 40, 254, 32, 33, 16, 110, 68, 37, 14, 48, 148, 224,
          4, 42, 214, 164 >>)
  @@ Digest("sha1", << 0 >>, << 0, 0, 0, 0, 2, 53, 35, 237 >>,
       << 110, 204, 178, 31, 86, 163, 189, 86, 17, 147, 62, 207, 35, 129, 104,
          244, 100, 41, 250, 250 >>)
  @@ Digest("sha1", << 255, 128 >>, << 0, 0, 0, 0, 0, 0, 0, 0 >>,
       << 208, 240, 162, 149, 208, 21, 170, 206, 131, 201, 51, 30, 170, 214,
          6, 78, 233, 223, 236, 249 >>)
  @@ Digest("sha1", << 255, 128 >>, << 0, 0, 0, 0, 0, 0, 0, 1 >>,
       << 66, 237, 42, 14, 76, 59, 155, 79, 126, 243, 5, 204, 45, 57, 95, 55,
          24, 20, 3, 150 >>)
  @@ Digest("sha1", << 255, 128 >>, << 0, 0, 0, 0, 0, 0, 0, 2 >>,
       << 124, 99, 191, 213, 133, 255, 234, 252, 174, 106, 163, 160, 198, 174,
          91, 207, 243, 42, 59, 164 >>)
  @@ Digest("sha1", << 255, 128 >>, << 0, 0, 0, 0, 2, 53, 35, 235 >>,
       << 216, 139, 90, 44, 128, 78, 236, 72, 104, 228, 127, 106, 178, 76,
          211, 129, 93, 167, 66, 253 >>)
  @@ Digest("sha1", << 255, 128 >>, << 0, 0, 0, 0, 2, 53, 35, 236 >>,
       << 19, 44, 247, 190, 99, 202, 145, 117, 158, 52, 160, 118, 205, 131, 7,
          90, 26, 199, 43, 194 >>)
  @@ Digest("sha1", << 255, 128 >>, << 0, 0, 0, 0, 2, 53, 35, 237 >>,
       << 149, 70, 206, 53, 45, 241, 45, 166, 204, 123, 47, 224, 222, 165,
          217, 155, 75, 242, 78, 0 >>)
  @@ Digest("sha1", << 255 >>, << 0, 0, 0, 0, 0, 0, 0, 0 >>,
       << 124, 21, 235, 72, 82, 200, 140, 254, 107, 232, 177, 122, 209, 163,
          130, 98, 93, 49, 20, 91 >>)
  @@ Digest("sha1", << 255 >>, << 0, 0, 0, 0, 0, 0, 0, 1 >>,
       << 135, 98, 244, 77, 142, 206, 162, 61, 235, 241, 31, 57, 189, 157,
          229, 41, 218, 208, 227, 183 >>)
  @@ Digest("sha1", << 255 >>, << 0, 0, 0, 0, 0, 0, 0, 2 >>,
       << 30, 112, 41, 148, 163, 177, 107, 71, 123, 142, 104, 247, 42, 83,
          220, 228, 195, 189, 37, 192 >>)
  @@ Digest("sha1", << 255 >>, << 0, 0, 0, 0, 2, 53, 35, 235 >>,
       << 125, 205, 206, 121, 40, 50, 18, 19, 134, 109, 4, 69, 65, 186, 229,
          174, 65, 193, 151, 46 >>)
  @@ Digest("sha1", << 255 >>, << 0, 0, 0, 0, 2, 53, 35, 236 >>,
       << 27, 209, 88, 102, 89, 17, 216, 201, 121, 55, 38, 4, 54, 253, 221,
          222, 32, 19, 23, 187 >>)
  @@ Digest("sha1", << 255 >>, << 0, 0, 0, 0, 2, 53, 35, 237 >>,
       << 227, 238, 116, 66, 13, 125, 110, 36, 90, 139, 224, 166, 11, 147,
          241, 120, 89, 112, 190, 205 >>)
  @@ Digest("sha1", << 0, 0 >>, << 0, 0, 0, 0, 0, 0, 0, 0 >>,
       << 218, 182, 154, 217, 142, 40, 118, 79, 151, 126, 226, 72, 126, 79,
          63, 104, 115, 178, 162, 151 >>)
  @@ Digest("sha1", << 0, 0 >>, << 0, 0, 0, 0, 0, 0, 0, 1 >>,
       << 238, 176, 11, 11, 204, 134, 70, 121, 255, 45, 141, 211, 11, 236, 73,
          92, 181, 242, 238, 158 >>)
  @@ Digest("sha1", << 0, 0 >>, << 0, 0, 0, 0, 0, 0, 0, 2 >>,
       << 177, 111, 139, 209, 46, 204, 48, 149, 241, 100, 19, 190, 113, 82,
          213, 229, 8, 196, 23, 206 >>)
  @@ Digest("sha1", << 0, 0 >>, << 0, 0, 0, 0, 2, 53, 35, 235 >>,
       << 42, 150, 43, 88, 200, 4, 170, 198, 95, 60, 234, 120, 138, 182, 219,
          166, 205, 174, 215, 134 >>)
  @@ Digest("sha1", << 0, 0 >>, << 0, 0, 0, 0, 2, 53, 35, 236 >>,
       << 223, 52, 0, 150, 40, 254, 32, 33, 16, 110, 68, 37, 14, 48, 148, 224,
          4, 42, 214, 164 >>)
  @@ Digest("sha1", << 0, 0 >>, << 0, 0, 0, 0, 2, 53, 35, 237 >>,
       << 110, 204, 178, 31, 86, 163, 189, 86, 17, 147, 62, 207, 35, 129, 104,
          244, 100, 41, 250, 250 >>)
  @@ Digest("sha1", << 255, 255, 255, 255, 255 >>,
       << 0, 0, 0, 0, 0, 0, 0, 0 >>,
       << 161, 146, 237, 93, 85, 234, 165, 149, 205, 199, 36, 25, 41, 194,
          113, 191, 200, 30, 26, 183 >>)
  @@ Digest("sha1", << 255, 255, 255, 255, 255 >>,
       << 0, 0, 0, 0, 0, 0, 0, 1 >>,
       << 43, 219, 241, 106, 186, 99, 230, 131, 66, 244, 228, 235, 169, 2,
          134, 6, 80, 139, 80, 65 >>)
  @@ Digest("sha1", << 255, 255, 255, 255, 255 >>,
       << 0, 0, 0, 0, 0, 0, 0, 2 >>,
       << 214, 128, 56, 121, 250, 121, 51, 83, 136, 197, 119, 75, 21, 236,
          217, 26, 231, 61, 8, 115 >>)
  @@ Digest("sha1", << 255, 255, 255, 255, 255 >>,
       << 0, 0, 0, 0, 2, 53, 35, 235 >>,
       << 125, 142, 67, 199, 95, 132, 47, 207, 231, 30, 149, 146, 87, 83, 145,
          9, 110, 94, 10, 151 >>)
  @@ Digest("sha1", << 255, 255, 255, 255, 255 >>,
       << 0, 0, 0, 0, 2, 53, 35, 236 >>,
       << 43, 19, 193, 24, 183, 220, 196, 166, 171, 176, 6, 3, 1, 39, 43, 95,
          182, 183, 164, 147 >>)
  @@ Digest("sha1", << 255, 255, 255, 255, 255 >>,
       << 0, 0, 0, 0, 2, 53, 35, 237 >>,
       << 219, 96, 172, 32, 117, 250, 248, 120, 196, 116, 141, 68, 161, 59,
          16, 65, 115, 0, 146, 84 >>)
  @@ Digest("sha1", FullKey, << 0, 0, 0, 0, 0, 0, 0, 0 >>,
       << 156, 91, 213, 77, 103, 16, 19, 54, 46, 41, 226, 234, 138, 96, 155,
          108, 109, 82, 161, 207 >>)
  @@ Digest("sha1", FullKey, << 0, 0, 0, 0, 0, 0, 0, 1 >>,
       << 246, 112, 180, 19, 170, 169, 223, 240, 76, 164, 17, 121, 12, 121,
          31, 103, 67, 75, 84, 15 >>)
  @@ Digest("sha1", FullKey, << 0, 0, 0, 0, 0, 0, 0, 2 >>,
       << 102, 226, 117, 221, 182, 187, 121, 107, 54, 176, 188, 30, 74, 177,
          37, 90, 53, 94, 28, 120 >>)
  @@ Digest("sha1", FullKey, << 0, 0, 0, 0, 2, 53, 35, 235 >>,
       << 37, 204, 145, 237, 241, 174, 212, 159, 51, 1, 224, 97, 174, 75, 138,
          235, 214, 124, 163, 144 >>)
  @@ Digest("sha1", FullKey, << 0, 0, 0, 0, 2, 53, 35, 236 >>,
       << 163, 169, 184, 244, 152, 244, 126, 28, 219, 123, 246, 119, 166, 94,
          173, 38, 130, 217, 138, 93 >>)
  @@ Digest("sha1", FullKey, << 0, 0, 0, 0, 2, 53, 35, 237 >>,
       << 11, 91, 10, 91, 228, 44, 197, 66, 211, 240, 143, 245, 126, 72, 219,
          75, 47, 244, 242, 134 >>)
  @@ Digest("sha1", ShortKey, << 0, 0, 0, 0, 2, 53, 35, 235 >>,
       << 214, 95, 203, 71, 248, 66, 231, 190, 36, 16, 78, 15, 194, 67, 207,
          236, 127, 41, 64, 235 >>)
  @@ Digest("sha1", ShortKey, << 0, 0, 0, 0, 2, 53, 35, 237 >>,
       << 107, 247, 174, 101, 40, 57, 49, 147, 238, 42, 160, 6, 246, 211, 121,
          94, 205, 27, 107, 25 >>)
  @@ Digest("sha1", RfcKey, << 0, 0, 0, 1, 0, 0, 0, 1 >>,
       << 50, 3, 201, 66, 25, 102, 104, 187, 30, 195, 198, 200, 97, 12, 154,
          208, 47, 25, 16, 16 >>)
  @@ Digest("sha1", RfcKey, << 128, 0, 0, 0, 0, 0, 0, 0 >>,
       << 48, 193, 18, 192, 231, 196, 81, 94, 157, 206, 213, 23, 227, 36, 229,
          107, 133, 62, 162, 32 >>)

\* The tabulated digest of the entry q is the HMAC that Hmac computes.
DigestAgrees(q) == Digests[q] = Hmac(q[1], q[2], q[3])

\* createHmac(name, secret).update(message).digest(), read from the table.
createHmac(name, secret, message) == Digests[<<name, secret, message>>]

\* Truncate with a fault: the offset is read from the first byte of the
\* digest instead of the last.
TruncateFirstByte(digest) ==
  LET offset == digest[1] % 16
  IN  ((digest[offset + 1] % 128) * 16777216)
      + (digest[offset + 2] * 65536)
      + (digest[offset + 3] * 256)
      + digest[offset + 4]

\* digest[index] & mask for a mask of low bits: a read past the end of a
\* Buffer gives undefined, and undefined & mask is 0.
ByteAt(digest, index) ==
  IF index \in 0 .. (Len(digest) - 1) THEN digest[index + 1] ELSE 0

\* TruncateOffset with a fault: the last byte without the mask 0xf.
TruncateOffsetUnmasked(digest) ==
  digest[Len(digest)]

\* digest[digest.length - 1] & 0xf
TruncateOffset(digest) ==
  digest[Len(digest)] % 16

\* The four bytes at offset .. offset + 3, the first without its top bit,
\* shifted into place: below 2^31, so that << and | lose and add nothing.
TruncateCode(digest, offset) ==
  ((ByteAt(digest, offset) % 128) * 16777216)
  + (ByteAt(digest, offset + 1) * 65536)
  + (ByteAt(digest, offset + 2) * 256)
  + ByteAt(digest, offset + 3)

\* digest[offset .. offset + 3] with the top bit masked, as an integer.
Truncate(digest) ==
  TruncateCode(digest, TruncateOffset(digest))

DecimalDigits == << "0", "1", "2", "3", "4", "5", "6", "7", "8", "9" >>

\* Number.prototype.toString on a non-negative integer.
RECURSIVE toString(_)
toString(n) ==
  IF n < 10 THEN << DecimalDigits[n + 1] >>
  ELSE Append(toString(n \div 10), DecimalDigits[(n % 10) + 1])

\* padStart with a fault: nothing is added.
padStartNothing(str, targetLength, ch) == str

\* String.prototype.padStart with a one-character filler.
RECURSIVE padStart(_, _, _)
padStart(str, targetLength, ch) ==
  IF Len(str) >= targetLength THEN str
  ELSE padStart(<<ch>> \o str, targetLength, ch)

\* code % Math.pow(10, digits): code is below 2^31, so the remainder is
\* code itself from 10 digits on.
ModPow10(code, digits) ==
  IF digits >= 10 THEN code ELSE code % (10 ^ digits)

\* generateHOTP.  A const of the code that holds a computed value (digest,
\* secretBuffer, expectedToken) is a bound variable ranging over the set of
\* that one value, and the function's result the one element built from it.
generateHOTP(secret, counter, digits, algorithm) ==
  LET counterBuffer == CounterBuffer(counter)
  IN  IF algorithm \notin DOMAIN algoMap
        \* createHmac(undefined, secret) throws ERR_INVALID_ARG_TYPE
        THEN Raise("TypeError", <<"counterBuffer", "createHmac">>)
        ELSE CHOOSE hotp \in
               { LET code == Truncate(digest)
                     otp  == toString(ModPow10(code, digits))
                 IN  Ret(padStart(otp, digits, "0"),
                         <<"counterBuffer", "createHmac", "digest">>) :
                 digest \in
                   {createHmac(algoMap[algorithm], secret, counterBuffer)} } :
               TRUE

generateTOTP(secret, timestamp, step, digits, algorithm) ==
  CHOOSE totp \in
    { IF ~secretBuffer.ok
        THEN Raise(secretBuffer.error, <<"base32Decode">>)
      ELSE IF step = 0
        \* BigInt(Infinity) and BigInt(NaN) throw
        THEN Raise("RangeError", <<"base32Decode">>)
      ELSE LET counter == BigInt(timestamp \div step)
               hotp == generateHOTP(secretBuffer.value, counter, digits,
                                    algorithm)
           IN  [hotp EXCEPT !.steps = <<"base32Decode">> \o @] :
      secretBuffer \in {base32Decode(secret)} } :
    TRUE

\* VerifyLoop with a fault: an error thrown while the expected token is
\* computed is caught and taken for a mismatch.
RECURSIVE VerifyLoopCatch(_, _, _)
VerifyLoopCatch(a, i, steps) ==
  IF i > a.window THEN Ret(FALSE, steps)
  ELSE LET adjustedTimestamp == a.timestamp + i * a.step
       IN  CHOOSE verdict \in
             { IF ~expectedToken.ok
                 THEN VerifyLoopCatch(a, i + 1, steps \o expectedToken.steps)
               ELSE IF constantTimeCompare(a.token, expectedToken.value)
                 THEN Ret(TRUE, steps \o expectedToken.steps
                                  \o <<"constantTimeCompare">>)
               ELSE VerifyLoopCatch(a, i + 1,
                      steps \o expectedToken.steps
                            \o <<"constantTimeCompare">>) :
               expectedToken \in
                 {generateTOTP(a.secret, adjustedTimestamp, a.step, a.digits,
                               a.algorithm)} } :
             TRUE

\* The for loop of verifyTOTP from offset i on; a = the arguments, steps =
\* the computations of the iterations before.
RECURSIVE VerifyLoop(_, _, _)
VerifyLoop(a, i, steps) ==
  IF i > a.window THEN Ret(FALSE, steps)
  ELSE LET adjustedTimestamp == a.timestamp + i * a.step
       IN  CHOOSE verdict \in
             { IF ~expectedToken.ok
                 THEN Raise(expectedToken.error,
                            steps \o expectedToken.steps)
               ELSE IF constantTimeCompare(a.token, expectedToken.value)
                 THEN Ret(TRUE, steps \o expectedToken.steps
                                  \o <<"constantTimeCompare">>)
               ELSE VerifyLoop(a, i + 1, steps \o expectedToken.steps
                                               \o <<"constantTimeCompare">>) :
               expectedToken \in
                 {generateTOTP(a.secret, adjustedTimestamp, a.step, a.digits,
                               a.algorithm)} } :
             TRUE

\* verifyTOTP with a fault: the loop starts at offset 0, so that only the
\* current and the later steps are tried.
verifyTOTPForward(secret, token, timestamp, window, step, digits, algorithm) ==
  VerifyLoop([secret |-> secret, token |-> token, timestamp |-> timestamp,
              window |-> window, step |-> step, digits |-> digits,
              algorithm |-> algorithm], 0, <<>>)

\* verifyTOTP with a fault: the loop runs over the offsets up to the
\* absolute value of window.
verifyTOTPAbsWindow(secret, token, timestamp, window, step, digits, algorithm) ==
  LET reach == IF window < 0 THEN -window ELSE window
  IN  VerifyLoop([secret |-> secret, token |-> token, timestamp |-> timestamp,
                  window |-> reach, step |-> step, digits |-> digits,
                  algorithm |-> algorithm], -reach, <<>>)

verifyTOTP(secret, token, timestamp, window, step, digits, algorithm) ==
  VerifyLoop([secret |-> secret, token |-> token, timestamp |-> timestamp,
              window |-> window, step |-> step, digits |-> digits,
              algorithm |-> algorithm], -window, <<>>)

----------------------------------------------------------------------------
(* src/index.ts                                                            *)
(*                                                                         *)
(* An argument is [form |-> "string", ...] for the shorthand call forms    *)
(* and [form |-> "options", options |-> o] for an options object, a record *)
(* that holds the fields the caller set.  clock is what                    *)
(* Math.floor(Date.now() / 1000) reads during the call.                    *)

\* o.f || d for a number field.
NumberOr(o, f, d) == IF f \in DOMAIN o /\ o[f] # 0 THEN o[f] ELSE d

\* o.f || d for a string field held as a TLA+ string.
NameOr(o, f, d) == IF f \in DOMAIN o /\ o[f] # "" THEN o[f] ELSE d

\* o.f for a string field held as a sequence of characters; undefined and
\* '' are both falsy and are both <<>> here.
TextOf(o, f) == IF f \in DOMAIN o THEN o[f] ELSE <<>>

\* encodeURIComponent on one character: letters and digits stand for
\* themselves, the others the model uses are percent-encoded.
EncodeURIChar(ch) ==
  IF ch = " " THEN << "%", "2", "0" >>
  ELSE IF ch = ":" THEN << "%", "3", "A" >>
  ELSE IF ch = "@" THEN << "%", "4", "0" >>
  ELSE << ch >>

RECURSIVE encodeURIComponent(_)
encodeURIComponent(str) ==
  IF str = <<>> THEN <<>>
  ELSE EncodeURIChar(Head(str)) \o encodeURIComponent(Tail(str))

\* The template literal of otpAuthUrl.
OtpAuthUrl(encodedIssuer, encodedAccount, secret) ==
  << "o", "t", "p", "a", "u", "t", "h", ":", "/", "/",
     "t", "o", "t", "p", "/" >>
    \o encodedIssuer \o << ":" >> \o encodedAccount
    \o << "?", "s", "e", "c", "r", "e", "t", "=" >> \o secret
    \o << "&", "i", "s", "s", "u", "e", "r", "=" >> \o encodedIssuer

\* generateSecret with a fault: the random bytes are drawn before the
\* issuer and the account name are looked at.
generateSecretDrawFirst(options, randomBytes) ==
  LET issuer       == TextOf(options, "issuer")
      accountName  == TextOf(options, "accountName")
      secretLength == IF "secretLength" \in DOMAIN options
                        THEN options.secretLength ELSE 20
  IN  IF secretLength \notin DOMAIN randomBytes
        THEN Raise("RangeError", <<"randomBytes">>)
      ELSE IF issuer = <<>> \/ accountName = <<>>
        THEN Raise("Issuer and account name are required", <<"randomBytes">>)
      ELSE LET secret == base32Encode(randomBytes[secretLength])
           IN  Ret([secret |-> secret,
                    otpAuthUrl |-> OtpAuthUrl(encodeURIComponent(issuer),
                                     encodeURIComponent(accountName), secret),
                    issuer |-> issuer, accountName |-> accountName],
                   <<"randomBytes", "base32Encode">>)

\* generateSecret; randomBytes[n] is the buffer crypto.randomBytes(n)
\* returns during the call, for the sizes n >= 0 it accepts.
generateSecret(options, randomBytes) ==
  LET issuer       == TextOf(options, "issuer")
      accountName  == TextOf(options, "accountName")
      secretLength == IF "secretLength" \in DOMAIN options
                        THEN options.secretLength ELSE 20
  IN  IF issuer = <<>> \/ accountName = <<>>
        THEN Raise("Issuer and account name are required", <<>>)
      ELSE IF secretLength \notin DOMAIN randomBytes
        \* randomBytes(size) throws ERR_OUT_OF_RANGE on a negative size
        THEN Raise("RangeError", <<"randomBytes">>)
      ELSE LET secret == base32Encode(randomBytes[secretLength])
           IN  Ret([secret |-> secret,
                    otpAuthUrl |-> OtpAuthUrl(encodeURIComponent(issuer),
                                     encodeURIComponent(accountName), secret),
                    issuer |-> issuer, accountName |-> accountName],
                   <<"randomBytes", "base32Encode">>)

\* src/qrcode.ts: what the two renderers hand back for the data, the output
\* of the qrcode library standing for itself.
generateQRCodeSVG(data) == [type |-> "svg", data |-> data]
generateQRCodeBase64(data) == [type |-> "image/png", data |-> data]

OtpAuthScheme == << "o", "t", "p", "a", "u", "t", "h", ":", "/", "/" >>

\* startsWith with a fault: the prefix is looked for anywhere in the string.
startsWithAnywhere(str, prefix) ==
  \E k \in 0..(Len(str) - Len(prefix)) :
    SubSeq(str, k + 1, k + Len(prefix)) = prefix

\* str.startsWith(prefix)
startsWith(str, prefix) ==
  Len(str) >= Len(prefix) /\ SubSeq(str, 1, Len(prefix)) = prefix

\* generateQRCode; the string form is [form, otpAuthUrl, rest], rest holding
\* the format argument when the caller passed one.
generateQRCode(optionsOrUrl) ==
  LET isString     == optionsOrUrl.form = "string"
      otpAuthUrl   == IF isString THEN optionsOrUrl.otpAuthUrl
                      ELSE TextOf(optionsOrUrl.options, "otpAuthUrl")
      outputFormat == IF isString
                        THEN IF "format" \in DOMAIN optionsOrUrl.rest
                               THEN optionsOrUrl.rest.format ELSE "base64"
                        ELSE NameOr(optionsOrUrl.options, "format", "base64")
  IN  IF otpAuthUrl = <<>>
        THEN Raise("OTP Auth URL is required", <<>>)
      ELSE IF ~startsWith(otpAuthUrl, OtpAuthScheme)
        THEN Raise("Invalid OTP Auth URL", <<>>)
      ELSE IF outputFormat = "svg"
        THEN Ret(generateQRCodeSVG(otpAuthUrl), <<"generateQRCodeSVG">>)
      ELSE Ret(generateQRCodeBase64(otpAuthUrl), <<"generateQRCodeBase64">>)

generateToken(optionsOrSecret, clock) ==
  LET isString  == optionsOrSecret.form = "string"
      o         == IF isString THEN <<>> ELSE optionsOrSecret.options
      secret    == IF isString THEN optionsOrSecret.secret
                   ELSE TextOf(o, "secret")
      step      == IF isString THEN 30 ELSE NumberOr(o, "step", 30)
      digits    == IF isString THEN 6 ELSE NumberOr(o, "digits", 6)
      algorithm == IF isString THEN "SHA-1" ELSE NameOr(o, "algorithm", "SHA-1")
      timestamp == IF isString THEN clock ELSE NumberOr(o, "timestamp", clock)
  IN  IF secret = <<>>
        THEN Raise("Secret is required", <<>>)
        ELSE generateTOTP(secret, timestamp, step, digits, algorithm)

\* StripToken with a fault: hyphens are kept.
StripTokenSpaces(str) == SelectSeq(str, LAMBDA ch : ch \notin Whitespace)

\* tokenToVerify.replace(/[\s-]/g, '')
StripToken(str) == SelectSeq(str, LAMBDA ch : ch \notin Whitespace \cup {"-"})

\* verifyToken with a fault: the separators are stripped from the token
\* before the checks for a missing secret or token.
verifyTokenStripFirst(optionsOrSecret, clock) ==
  LET isString  == optionsOrSecret.form = "string"
      o         == IF isString THEN <<>> ELSE optionsOrSecret.options
      secret    == IF isString THEN optionsOrSecret.secret
                   ELSE TextOf(o, "secret")
      token     == StripToken(IF isString THEN optionsOrSecret.token
                              ELSE TextOf(o, "token"))
      window    == IF ~isString /\ "window" \in DOMAIN o THEN o.window ELSE 1
      step      == IF isString THEN 30 ELSE NumberOr(o, "step", 30)
      digits    == IF isString THEN 6 ELSE NumberOr(o, "digits", 6)
      algorithm == IF isString THEN "SHA-1" ELSE NameOr(o, "algorithm", "SHA-1")
      timestamp == IF isString THEN clock ELSE NumberOr(o, "timestamp", clock)
  IN  IF isString /\ token = <<>>
        THEN Raise("Token is required", <<>>)
      ELSE IF secret = <<>> \/ token = <<>>
        THEN Raise("Secret and token are required", <<>>)
      ELSE verifyTOTP(secret, token, timestamp, window, step, digits,
                      algorithm)

verifyToken(optionsOrSecret, clock) ==
  LET isString  == optionsOrSecret.form = "string"
      o         == IF isString THEN <<>> ELSE optionsOrSecret.options
      secret    == IF isString THEN optionsOrSecret.secret
                   ELSE TextOf(o, "secret")
      token     == IF isString THEN optionsOrSecret.token
                   ELSE TextOf(o, "token")
      window    == IF ~isString /\ "window" \in DOMAIN o THEN o.window ELSE 1
      step      == IF isString THEN 30 ELSE NumberOr(o, "step", 30)
      digits    == IF isString THEN 6 ELSE NumberOr(o, "digits", 6)
      algorithm == IF isString THEN "SHA-1" ELSE NameOr(o, "algorithm", "SHA-1")
      timestamp == IF isString THEN clock ELSE NumberOr(o, "timestamp", clock)
  IN  IF isString /\ token = <<>>
        THEN Raise("Token is required", <<>>)
      ELSE IF secret = <<>> \/ token = <<>>
        THEN Raise("Secret and token are required", <<>>)
      ELSE verifyTOTP(secret, StripToken(token), timestamp, window, step,
                      digits, algorithm)

----------------------------------------------------------------------------
(* The codec on its own: a buffer is encoded and the text decoded again,   *)
(* or an arbitrary text is decoded.                                        *)

MaxBytes == 5
MaxText == 3

ByteValues == {0, 1, 90, 128, 255}

TextChars ==
  {"A", "Z", "2", "7", "a", "z", " ", "\n", "=", "0", "1", "8", "9", "-"}

\* Longer texts are made of fewer characters.
MaxLongText == 8
LongTextChars == {"7", "c", " "}

SeqsUpTo(S, n) == UNION {[1..k -> S] : k \in 0..n}

InitCodec ==
  /\ \/ \E buffer \in SeqsUpTo(ByteValues, MaxBytes) :
          b32 = [pc |-> "buffer", buffer |-> buffer, text |-> <<>>,
                 out |-> <<>>]
     \/ \E text \in SeqsUpTo(TextChars, MaxText)
                      \cup SeqsUpTo(LongTextChars, MaxLongText) :
          b32 = [pc |-> "text", buffer |-> <<>>, text |-> text,
                 out |-> <<>>]
  /\ cmp = Idle
  /\ api = Idle
  /\ now = 0
  /\ calls = Idle
  /\ frames = Idle
  /\ trunc = Idle

Encode ==
  /\ b32.pc = "buffer"
  /\ b32' = [b32 EXCEPT !.pc = "encoded", !.text = base32Encode(b32.buffer)]
  /\ UNCHANGED <<cmp, api, now, calls, frames, trunc>>

Decode ==
  /\ b32.pc \in {"text", "encoded"}
  /\ b32' = [b32 EXCEPT
               !.pc = IF b32.pc = "encoded" THEN "roundtrip" ELSE "decoded",
               !.out = base32Decode(b32.text)]
  /\ UNCHANGED <<cmp, api, now, calls, frames, trunc>>

NextCodec == Encode \/ Decode

SpecCodec == InitCodec /\ [][NextCodec]_vars

\* C1: decoding the encoding of any byte sequence gives the byte sequence
\* back, also when the encoder's 32-bit accumulator has wrapped.
RoundTrip ==
  b32.pc = "roundtrip" => b32.out = Ok(b32.buffer)

\* A round trip of five bytes or more whose first byte has its top bit set:
\* the accumulator went negative and lost its oldest bits.
RoundTripWrapped ==
  /\ b32.pc = "roundtrip"
  /\ Len(b32.buffer) >= 5
  /\ b32.buffer[1] >= 128
  /\ b32.out = Ok(b32.buffer)

Alphabet == {BASE32_CHARS[k] : k \in 1..Len(BASE32_CHARS)}

\* A character that is neither whitespace nor, once uppercased, one of the
\* 32 symbols.
HasForeignChar(text) ==
  \E k \in 1..Len(text) :
    text[k] \notin Whitespace /\ ToUpperCase(text[k]) \notin Alphabet

\* C9: base32Decode throws the invalid-character error exactly when the
\* text holds a character outside the alphabet, wherever it sits, and
\* returns bytes for every other text.
DecodeErrorIffForeign ==
  b32.pc = "decoded" =>
    IF HasForeignChar(b32.text)
      THEN b32.out = Throw("Invalid Base32 character")
      ELSE b32.out.ok

\* The padding character in last position, after valid symbols, is refused.
DecodeRefusesTrailingPad ==
  /\ b32.pc = "decoded"
  /\ Len(b32.text) = MaxText
  /\ b32.text[MaxText] = "="
  /\ \A k \in 1..(MaxText - 1) : b32.text[k] \in Alphabet
  /\ ~b32.out.ok

----------------------------------------------------------------------------
(* The comparison on its own: constantTimeCompare is called on two strings *)
(* and runs one step at a time.                                            *)

MaxCmpLen == 3
CmpChars == {"0", "1", "7"}

InitCmp ==
  /\ cmp = Idle
  /\ b32 = Idle
  /\ api = Idle
  /\ now = 0
  /\ calls = Idle
  /\ frames = Idle
  /\ trunc = Idle

CmpCall ==
  /\ cmp.pc = "idle"
  /\ \E a \in SeqsUpTo(CmpChars, MaxCmpLen),
        b \in SeqsUpTo(CmpChars, MaxCmpLen) :
       cmp' = CmpStart(a, b)
  /\ UNCHANGED <<b32, api, now, calls, frames, trunc>>

CmpAdvance ==
  /\ cmp.pc \in {"length", "loop"}
  /\ cmp' = CmpStep(cmp)
  /\ UNCHANGED <<b32, api, now, calls, frames, trunc>>

NextCmp == CmpCall \/ CmpAdvance

SpecCmp == InitCmp /\ [][NextCmp]_vars

\* C8: when constantTimeCompare returns on strings of equal length n, the loop
\* body has run exactly n times, wherever the first difference is and whether
\* or not the strings are equal; it returns without entering the loop only
\* when the lengths differ, and then with false.
CompareScansAll ==
  cmp.pc = "done" =>
    IF Len(cmp.a) = Len(cmp.b)
      THEN cmp.i = Len(cmp.a) /\ cmp.ret = (cmp.a = cmp.b)
      ELSE cmp.i = 0 /\ cmp.ret = FALSE

\* Two strings of the longest length that differ in their first character
\* have been compared to the end.
CompareScansPastMismatch ==
  /\ cmp.pc = "done"
  /\ Len(cmp.a) = MaxCmpLen
  /\ Len(cmp.b) = MaxCmpLen
  /\ cmp.a[1] # cmp.b[1]
  /\ cmp.i = MaxCmpLen
  /\ cmp.ret = FALSE

----------------------------------------------------------------------------
(* The generator, the verifier and the public API: a call is made and      *)
(* returns.  The functions keep nothing between calls, so a behaviour is   *)
(* one call.                                                               *)

MaxWindow == 2

SpacedSecret ==
  << "j", "b", "s", "w", " ", "y", "3", "d", "p" >>

BadSecret ==
  << "J", "B", "S", "W", "Y", "3", "D", "1" >>

Timestamps == {0, 59, 1111111109}
Clocks == {59, 1111111109}
Steps == {30, 60}
Digits == {0, 1, 6, 8, 10}
Algorithms == {"SHA-1", "MD5", ""}

\* The tokens offered to verifyTOTP reach one step past the widest window.
Reach == MaxWindow + 1

InitTotp ==
  /\ api = Idle
  /\ now = 0
  /\ calls = Idle
  /\ frames = Idle
  /\ trunc = Idle
  /\ b32 = Idle
  /\ cmp = Idle

Returned(op, args, result) ==
  [pc |-> "returned", op |-> op, args |-> args, result |-> result]

\* Counters outside 0 .. 2^31: 2^32 + 1, 2^63, 2^64 - 1, 2^64, 2^64 + 1,
\* -1 and -(2^64) - 1.
WideCounters ==
  { <<0, 256, 1>>, <<32768, 0, 0>>, <<65535, Limb - 1, Limb - 1>>,
    <<65536, 0, 0>>, <<65536, 0, 1>>, BigInt(0 - 1),
    <<0 - 65537, Limb - 1, Limb - 1>> }

\* The arguments of generateHOTP.
HotpArgs ==
  [secret : {RfcKey, ShortKey},
   counter : {BigInt(0), BigInt(1), BigInt(37037036)},
   digits : Digits, algorithm : Algorithms]
  \cup [secret : {RfcKey}, counter : {BigInt(1)}, digits : {6, 8},
        algorithm : {"SHA-256", "SHA-512"}]
  \cup [secret : {RfcKey}, counter : WideCounters, digits : {6},
        algorithm : {"SHA-1"}]

CallGenerateHOTP ==
  /\ api.pc = "idle"
  /\ \E a \in HotpArgs :
       api' = Returned("generateHOTP", a,
                generateHOTP(a.secret, a.counter, a.digits, a.algorithm))
  /\ UNCHANGED <<b32, cmp, now, calls, frames, trunc>>

\* The arguments of generateTOTP.
TotpArgs ==
  [secret : {RfcSecret, ShortSecret, SpacedSecret, BadSecret},
   timestamp : Timestamps, step : Steps \cup {0}, digits : Digits,
   algorithm : Algorithms]
  \cup [secret : {RfcSecret}, timestamp : {59}, step : {30}, digits : {6, 8},
        algorithm : {"SHA-256", "SHA-512"}]
  \cup [secret : {RfcSecret}, timestamp : {0 - 1, 0 - 31}, step : {30},
        digits : {6}, algorithm : {"SHA-1"}]

CallGenerateTOTP ==
  /\ api.pc = "idle"
  /\ \E a \in TotpArgs :
       api' = Returned("generateTOTP", a,
                generateTOTP(a.secret, a.timestamp, a.step, a.digits,
                             a.algorithm))
  /\ UNCHANGED <<b32, cmp, now, calls, frames, trunc>>

\* A token with its first character changed.
Garbled(token) ==
  IF token = <<>> THEN <<"0">>
  ELSE <<(IF token[1] = "9" THEN "0" ELSE "9")>> \o Tail(token)

Zeros == << "0", "0", "0", "0", "0", "0" >>

\* The tokens a caller may present under the settings g: the tokens of the
\* steps up to reach steps away, the token of the timestamp garbled,
\* "000000" and "".
TokensFor(g, reach) ==
  LET at(k) == generateTOTP(g.secret, g.timestamp + (k * g.step), g.step,
                            g.digits, g.algorithm)
      tokens == {at(k).value : k \in {j \in (0 - reach)..reach : at(j).ok}}
  IN  tokens \cup (IF at(0).ok THEN {Garbled(at(0).value)} ELSE {})
             \cup {Zeros, <<>>}

\* The arguments of verifyTOTP: settings, a window and a token.
VerifyArgsOf(settings, windows, reach) ==
  UNION {[secret : {g.secret}, token : TokensFor(g, reach),
          timestamp : {g.timestamp}, window : windows, step : {g.step},
          digits : {g.digits}, algorithm : {g.algorithm}] : g \in settings}

VerifyArgs ==
  VerifyArgsOf([secret : {RfcSecret, BadSecret}, timestamp : Timestamps,
                step : Steps, digits : {6}, algorithm : {"SHA-1", "MD5"}],
               (0 - 1)..MaxWindow, Reach)
  \cup VerifyArgsOf([secret : {SpacedSecret}, timestamp : {59}, step : {30},
                     digits : {8}, algorithm : {"SHA-1"}],
                    (0 - 1)..MaxWindow, Reach)
  \cup VerifyArgsOf([secret : {RfcSecret}, timestamp : {59}, step : {30},
                     digits : {6}, algorithm : {"SHA-256", "SHA-512"}],
                    {0}, 0)
  \cup VerifyArgsOf([secret : {RfcSecret}, timestamp : {59}, step : {0},
                     digits : {6}, algorithm : {"SHA-1"}],
                    {0 - 1, 0}, 0)

CallVerifyTOTP ==
  /\ api.pc = "idle"
  /\ \E a \in VerifyArgs :
       api' = Returned("verifyTOTP", a,
                verifyTOTP(a.secret, a.token, a.timestamp, a.window, a.step,
                           a.digits, a.algorithm))
  /\ UNCHANGED <<b32, cmp, now, calls, frames, trunc>>

\* The options objects: Field(f, values) is the field f left out or set to
\* one of the values.
Field(f, values) == {<<>>} \cup {f :> v : v \in values}
Options(fields) == [form : {"options"}, options : fields]

GenerateTokenOptions ==
  {s @@ st @@ d @@ a @@ t :
     s \in Field("secret", {RfcSecret, BadSecret, <<>>}),
     st \in Field("step", {0, 30, 60}),
     d \in Field("digits", {0, 6, 8}),
     a \in Field("algorithm", {"", "SHA-1", "MD5"}),
     t \in Field("timestamp", Timestamps)}
  \cup
  {("secret" :> RfcSecret) @@ ("algorithm" :> a) @@ ("timestamp" :> 59) :
     a \in {"SHA-256", "SHA-512"}}

GenerateTokenArgs ==
  [form : {"string"}, secret : {RfcSecret, ShortSecret, BadSecret, <<>>}]
  \cup Options(GenerateTokenOptions)

\* Math.floor(Date.now() / 1000) reads clock during the call.
CallGenerateToken ==
  /\ api.pc = "idle"
  /\ \E a \in GenerateTokenArgs, clock \in Clocks :
       /\ now' = clock
       /\ api' = Returned("generateToken", a, generateToken(a, clock))
  /\ UNCHANGED <<b32, cmp, calls, frames, trunc>>

\* A token as authenticator applications group it: sep after every third
\* character.
RECURSIVE Grouped(_, _)
Grouped(token, sep) ==
  IF Len(token) <= 3 THEN token
  ELSE SubSeq(token, 1, 3) \o <<sep>> \o Grouped(SubSeq(token, 4, Len(token)), sep)

\* The tokens a caller may present to verifyToken: the tokens of the RFC
\* secret at the clock readings and one step around the first, as they are
\* and grouped, one of them garbled, "000000", separators alone and "".
VerifyTokenTokens ==
  LET at(t) == generateTOTP(RfcSecret, t, 30, 6, "SHA-1").value
      tokens == {at(t) : t \in Clocks \cup {29, 89}}
  IN  tokens \cup {Grouped(at(59), " "), Grouped(at(59), "-"),
                   <<" ">> \o Grouped(at(59), "-") \o <<"\n">>,
                   Garbled(at(59)), Zeros, <<" ">>, <<"-", " ">>, <<>>}

VerifyTokenOptions ==
  {s @@ k @@ w @@ a @@ t :
     s \in Field("secret", {RfcSecret, BadSecret}),
     k \in Field("token", VerifyTokenTokens),
     w \in Field("window", {0 - 1, 0}),
     a \in Field("algorithm", {"MD5"}),
     t \in Field("timestamp", {0, 59})}
  \cup
  {("secret" :> RfcSecret) @@ ("token" :> k) @@ ("digits" :> d)
     @@ ("timestamp" :> 59) :
     k \in {<<"-">>, <<"\n", "-", "-">>, <<" ", " ">>, Zeros},
     d \in {1, 8}}

VerifyTokenArgs ==
  [form : {"string"}, secret : {RfcSecret, BadSecret, <<>>},
   token : VerifyTokenTokens]
  \cup Options(VerifyTokenOptions)

CallVerifyToken ==
  /\ api.pc = "idle"
  /\ \E a \in VerifyTokenArgs, clock \in Clocks :
       /\ now' = clock
       /\ api' = Returned("verifyToken", a, verifyToken(a, clock))
  /\ UNCHANGED <<b32, cmp, calls, frames, trunc>>

\* The sizes crypto.randomBytes is asked for, and what it returns: two
\* sources, each a buffer per size.
SecretSizes == {0, 1, 2, 5, 20}

RandomSources ==
  { (0 :> <<>>) @@ (1 :> <<0>>) @@ (2 :> <<255, 128>>) @@ (5 :> ShortKey)
      @@ (20 :> RfcKey),
    (0 :> <<>>) @@ (1 :> <<255>>) @@ (2 :> <<0, 0>>)
      @@ (5 :> << 255, 255, 255, 255, 255 >>) @@ (20 :> FullKey) }

SecretOptions ==
  {i @@ a @@ n :
     i \in Field("issuer", {<<>>, <<"A">>, <<"a", " ", "b">>}),
     a \in Field("accountName", {<<>>, <<"u", "@", "x">>}),
     n \in Field("secretLength", {0 - 1} \cup SecretSizes)}

CallGenerateSecret ==
  /\ api.pc = "idle"
  /\ \E o \in SecretOptions, r \in RandomSources :
       api' = Returned("generateSecret", [options |-> o, randomBytes |-> r],
                generateSecret(o, r))
  /\ UNCHANGED <<b32, cmp, now, calls, frames, trunc>>

\* The URLs handed to generateQRCode: none, well-formed ones, one of another
\* scheme, one cut short and one that holds the scheme further in.
QRCodeUrls ==
  {<<>>,
   OtpAuthScheme,
   OtpAuthUrl(<<"A">>, <<"u">>, ShortSecret),
   << "h", "t", "t", "p", ":", "/", "/", "a" >>,
   << "o", "t", "p", "a", "u", "t", "h", ":", "/" >>,
   << "a", "?" >> \o OtpAuthScheme}

QRCodeFormats == {"", "svg", "base64", "png"}

QRCodeArgs ==
  [form : {"string"}, otpAuthUrl : QRCodeUrls,
   rest : Field("format", QRCodeFormats)]
  \cup Options({u @@ f : u \in Field("otpAuthUrl", QRCodeUrls),
                         f \in Field("format", QRCodeFormats)})

CallGenerateQRCode ==
  /\ api.pc = "idle"
  /\ \E a \in QRCodeArgs :
       api' = Returned("generateQRCode", a, generateQRCode(a))
  /\ UNCHANGED <<b32, cmp, now, calls, frames, trunc>>

NextTotp ==
  \/ CallGenerateHOTP
  \/ CallGenerateTOTP
  \/ CallVerifyTOTP
  \/ CallGenerateToken
  \/ CallVerifyToken
  \/ CallGenerateSecret
  \/ CallGenerateQRCode

SpecTotp == InitTotp /\ [][NextTotp]_vars

Called(op) == api.pc = "returned" /\ api.op = op

Supported == {"SHA-1", "SHA-256", "SHA-512"}

DigitChars == {"0", "1", "2", "3", "4", "5", "6", "7", "8", "9"}

\* The arguments a of a verifyTOTP call are a secret that decodes, a
\* supported algorithm and a positive step.
ValidSettings(a) ==
  /\ base32Decode(a.secret).ok
  /\ a.algorithm \in Supported
  /\ a.step > 0

\* The timestamps whose counter is k counters away from that of the call a:
\* the one k steps away and the first and last second of that counter.
TimesAt(a, k) ==
  LET c == (a.timestamp \div a.step) + k
  IN  {a.timestamp + (k * a.step), c * a.step, (c * a.step) + (a.step - 1)}

TokenAt(a, t) == generateTOTP(a.secret, t, a.step, a.digits, a.algorithm)

\* C2: under valid settings and a window w >= 0, verifyTOTP returns true
\* on the token generateTOTP gives for any timestamp whose counter is at most
\* w counters away from the counter of the timestamp of the call.
WindowAccepts ==
  (Called("verifyTOTP") /\ ValidSettings(api.args) /\ api.args.window >= 0) =>
    \A k \in (0 - api.args.window)..api.args.window :
      \A t \in TimesAt(api.args, k) :
        api.args.token = TokenAt(api.args, t).value
          => (api.result.ok /\ api.result.value = TRUE)

\* A token of window steps before the timestamp, which is not the token of
\* the timestamp, has been accepted under a window of at least 1.
EarlierTokenAccepted ==
  /\ Called("verifyTOTP")
  /\ ValidSettings(api.args)
  /\ api.args.window >= 1
  /\ api.args.token =
       TokenAt(api.args,
               api.args.timestamp - (api.args.window * api.args.step)).value
  /\ api.args.token # TokenAt(api.args, api.args.timestamp).value
  /\ api.result.ok
  /\ api.result.value = TRUE

\* C3: under valid settings verifyTOTP returns true if the token equals,
\* character for character, the token of timestamp + i * step for some i in
\* -window .. window, and false in every other case.
OnlyWindowAccepted ==
  (Called("verifyTOTP") /\ ValidSettings(api.args)) =>
    /\ api.result.ok
    /\ api.result.value =
         (\E i \in (0 - api.args.window)..api.args.window :
            LET e == TokenAt(api.args, api.args.timestamp + (i * api.args.step))
            IN  /\ Len(api.args.token) = Len(e.value)
                /\ \A j \in 1..Len(e.value) : api.args.token[j] = e.value[j])

\* Under window 0 the token of the step before, which is not the token of
\* the timestamp, has been rejected.
NeighbourRejected ==
  /\ Called("verifyTOTP")
  /\ ValidSettings(api.args)
  /\ api.args.window = 0
  /\ api.args.token =
       TokenAt(api.args, api.args.timestamp - api.args.step).value
  /\ api.args.token # TokenAt(api.args, api.args.timestamp).value
  /\ api.result.ok
  /\ api.result.value = FALSE

\* C4, as stated: for every digits value d and supported algorithm
\* generateHOTP returns a string of exactly d characters, all decimal digits.
TokenHasDigitsLength ==
  (Called("generateHOTP") /\ api.args.algorithm \in Supported) =>
    /\ api.result.ok
    /\ Len(api.result.value) = api.args.digits
    /\ \A j \in 1..Len(api.result.value) : api.result.value[j] \in DigitChars

\* C4, amended: for every digits value d >= 1 and supported algorithm
\* generateHOTP returns a string of exactly d characters, all decimal digits.
TokenHasPositiveDigitsLength ==
  (Called("generateHOTP") /\ api.args.algorithm \in Supported
     /\ api.args.digits >= 1) =>
    /\ api.result.ok
    /\ Len(api.result.value) = api.args.digits
    /\ \A j \in 1..Len(api.result.value) : api.result.value[j] \in DigitChars

\* generateHOTP has returned a token of 6 or more digits that starts with a
\* zero the padding added.
TokenPadded ==
  /\ Called("generateHOTP")
  /\ api.args.digits >= 6
  /\ api.result.ok
  /\ Len(api.result.value) = api.args.digits
  /\ api.result.value[1] = "0"
  /\ api.result.value[2] # "0"

\* The call is generateToken or verifyToken on an options object.
CalledWithOptions ==
  /\ api.pc = "returned"
  /\ api.op \in {"generateToken", "verifyToken"}
  /\ api.args.form = "options"

\* The result of the call api.args when the clock reads clock.
ResultAt(args, clock) ==
  IF api.op = "generateToken" THEN generateToken(args, clock)
  ELSE verifyToken(args, clock)

\* C5, as stated: a generateToken or verifyToken call on options that carry
\* a timestamp returns the same result whatever the clock reads.
TimestampOverridesClock ==
  (CalledWithOptions /\ "timestamp" \in DOMAIN api.args.options) =>
    \A clock \in Clocks : ResultAt(api.args, clock) = api.result

\* The token with the separators seps put before position p (p = Len + 1:
\* at the end).
InsertAt(token, p, seps) ==
  SubSeq(token, 1, p - 1) \o seps \o SubSeq(token, p, Len(token))

Separators == {<<" ">>, <<"-">>, <<"\n">>}

\* The strings made from token by inserting a separator at one position,
\* and one with separators at both ends.
Insertions(token) ==
  {InsertAt(token, p, x) : p \in 1..(Len(token) + 1), x \in Separators}
  \cup {<<"-", " ">> \o token \o <<"\t">>}

\* The arguments args with the candidate token replaced by F.
WithToken(args, F) ==
  IF args.form = "string" THEN [args EXCEPT !.token = F]
  ELSE [args EXCEPT !.options = ("token" :> F) @@ args.options]

TokenOf(args) ==
  IF args.form = "string" THEN args.token ELSE TextOf(args.options, "token")

\* C6: verifyToken on a token T that holds a digit gives the same result
\* on every string made from T by inserting whitespace or hyphens, under the
\* same secret and settings.
SeparatorsIgnored ==
  (Called("verifyToken")
     /\ \E j \in 1..Len(TokenOf(api.args)) :
          TokenOf(api.args)[j] \in DigitChars) =>
    \A F \in Insertions(TokenOf(api.args)) :
      verifyToken(WithToken(api.args, F), now) = api.result

\* verifyToken has returned true on a token that holds a hyphen.
GroupedTokenAccepted ==
  /\ Called("verifyToken")
  /\ \E j \in 1..Len(TokenOf(api.args)) : TokenOf(api.args)[j] = "-"
  /\ api.result.ok
  /\ api.result.value = TRUE

\* The options o set step 30, digits 6 and algorithm SHA-1 on the RFC secret.
RfcOptions(o) ==
  /\ DOMAIN o = {"secret", "step", "digits", "algorithm", "timestamp"}
  /\ o.secret = RfcSecret
  /\ o.step = 30
  /\ o.digits = 6
  /\ o.algorithm = "SHA-1"

\* C7: with the RFC secret, step 30, digits 6 and SHA-1, generateToken
\* returns "287082" for timestamp 59 and "081804" for timestamp 1111111109,
\* the digests of counters 1 and 37037036 being the HMAC-SHA-1 of the key.
RfcVectors ==
  (Called("generateToken") /\ api.args.form = "options"
     /\ RfcOptions(api.args.options)) =>
    /\ api.args.options.timestamp = 59 =>
         /\ api.result.ok
         /\ api.result.value = << "2", "8", "7", "0", "8", "2" >>
         /\ DigestAgrees(<<"sha1", RfcKey, CounterBuffer(BigInt(1))>>)
    /\ api.args.options.timestamp = 1111111109 =>
         /\ api.result.ok
         /\ api.result.value = << "0", "8", "1", "8", "0", "4" >>
         /\ DigestAgrees(<<"sha1", RfcKey,
                          CounterBuffer(BigInt(37037036))>>)

\* generateToken has returned on the second RFC vector.
RfcVectorReturned ==
  /\ Called("generateToken")
  /\ api.args.form = "options"
  /\ RfcOptions(api.args.options)
  /\ api.args.options.timestamp = 1111111109
  /\ api.result.ok

\* The algorithm selector of the call, when it has one.
HasSelector ==
  /\ api.pc = "returned"
  /\ IF api.op \in {"generateToken", "verifyToken"}
       THEN api.args.form = "options" /\ "algorithm" \in DOMAIN api.args.options
       ELSE TRUE

Selector ==
  IF api.op \in {"generateToken", "verifyToken"}
    THEN api.args.options.algorithm
    ELSE api.args.algorithm

\* C10, as stated: a call whose algorithm selector is not SHA-1, SHA-256 or
\* SHA-512 fails, and fails before any computation: no token or verdict is
\* returned and no decoding, counter encoding or HMAC has been attempted.
UnsupportedAlgorithmRejected ==
  (HasSelector /\ Selector \notin Supported) =>
    (~api.result.ok /\ api.result.steps = <<>>)

\* The secret a generateToken or verifyToken call was given.
SecretOf(args) ==
  IF args.form = "string" THEN args.secret ELSE TextOf(args.options, "secret")

InputErrors ==
  {"Issuer and account name are required", "Secret is required",
   "Token is required", "Secret and token are required"}

\* A public entry point was called with a required string empty or missing.
RequiredStringMissing ==
  \/ /\ Called("generateSecret")
     /\ \/ TextOf(api.args.options, "issuer") = <<>>
        \/ TextOf(api.args.options, "accountName") = <<>>
  \/ Called("generateToken") /\ SecretOf(api.args) = <<>>
  \/ /\ Called("verifyToken")
     /\ (SecretOf(api.args) = <<>> \/ TokenOf(api.args) = <<>>)

\* C11: generateSecret with an empty or missing issuer or account name,
\* generateToken with an empty secret and verifyToken (both call forms) with
\* an empty secret or token throw an invalid-input error and return nothing,
\* before any random bytes are drawn, any Base32 is decoded or any HMAC is
\* computed.
EmptyInputRejected ==
  RequiredStringMissing =>
    /\ ~api.result.ok
    /\ api.result.error \in InputErrors
    /\ api.result.steps = <<>>

\* verifyToken was called in its string form with the RFC secret and an
\* empty token, and threw.
EmptyTokenRejected ==
  /\ Called("verifyToken")
  /\ api.args.form = "string"
  /\ SecretOf(api.args) = RfcSecret
  /\ TokenOf(api.args) = <<>>
  /\ ~api.result.ok

\* The window a verifyTOTP or verifyToken call verifies with.
WindowOf(args) ==
  IF api.op = "verifyTOTP" THEN args.window
  ELSE IF args.form = "options" /\ "window" \in DOMAIN args.options
    THEN args.options.window
  ELSE 1

\* A generator or verifier was called with a secret that is not empty and
\* holds a character outside the alphabet, the verifiers with a window >= 0.
CalledWithForeignSecret ==
  /\ api.pc = "returned"
  /\ \/ /\ api.op \in {"generateTOTP", "verifyTOTP"}
        /\ HasForeignChar(api.args.secret)
     \/ /\ api.op \in {"generateToken", "verifyToken"}
        /\ HasForeignChar(SecretOf(api.args))
  /\ api.op \in {"verifyTOTP", "verifyToken"} => WindowOf(api.args) >= 0

Includes(str, part) ==
  \E k \in 0..(Len(str) - Len(part)) :
    SubSeq(str, k + 1, k + Len(part)) = part

\* generateToken accepts the secret at the clock reading, and verifyToken
\* accepts the secret with the token it returned: neither throws.
SecretAccepted(secret, clock) ==
  LET token == generateToken([form |-> "string", secret |-> secret], clock)
  IN  /\ token.ok
      /\ verifyToken([form |-> "string", secret |-> secret,
                      token |-> token.value], clock).ok

\* C13, as stated: whatever secretLength the caller passes or leaves out,
\* the secret generateSecret returns is a non-empty string over A-Z and 2-7,
\* occurs in the returned otpAuthUrl, and is accepted by generateToken and
\* verifyToken.
GeneratedSecretUsable ==
  (Called("generateSecret") /\ api.result.ok) =>
    LET secret == api.result.value.secret
    IN  /\ secret # <<>>
        /\ \A k \in 1..Len(secret) : secret[k] \in Alphabet
        /\ Includes(api.result.value.otpAuthUrl, secret)
        /\ \A clock \in Clocks : SecretAccepted(secret, clock)

\* The URL and the format a generateQRCode call was given ("" for none).
QRCodeUrlOf(args) ==
  IF args.form = "string" THEN args.otpAuthUrl
  ELSE TextOf(args.options, "otpAuthUrl")

QRCodeFormatOf(args) ==
  LET given == IF args.form = "string" THEN args.rest ELSE args.options
  IN  IF "format" \in DOMAIN given THEN given.format ELSE ""

\* C15: generateQRCode, in either call form, throws without invoking a
\* renderer on an empty URL and on a URL that does not start with
\* "otpauth://"; on every other URL it invokes exactly one renderer, once:
\* generateQRCodeSVG if the format is 'svg' and generateQRCodeBase64 if not.
RendersOnlyValidUrls ==
  Called("generateQRCode") =>
    LET url == QRCodeUrlOf(api.args)
    IN  IF Len(url) >= 10 /\ SubSeq(url, 1, 10) = OtpAuthScheme
          THEN /\ api.result.ok
               /\ api.result.value.data = url
               /\ api.result.steps =
                    IF QRCodeFormatOf(api.args) = "svg"
                      THEN <<"generateQRCodeSVG">>
                      ELSE <<"generateQRCodeBase64">>
          ELSE /\ ~api.result.ok
               /\ api.result.error \in
                    {"OTP Auth URL is required", "Invalid OTP Auth URL"}
               /\ api.result.steps = <<>>

\* generateQRCode in its options form rendered a well-formed URL as SVG.
RenderedAsSvg ==
  /\ Called("generateQRCode")
  /\ api.args.form = "options"
  /\ api.result.ok
  /\ api.result.value.type = "svg"
  /\ api.result.steps = <<"generateQRCodeSVG">>

\* Bit j (from 0, most significant bit of the first byte first) of the
\* bytes, and 0 past their end.
BitOf(bytes, j) ==
  IF j < 8 * Len(bytes)
    THEN (bytes[(j \div 8) + 1] \div (2 ^ (7 - (j % 8)))) % 2
    ELSE 0

\* The value of the k-th group of five bits of the bytes.
Quintet(bytes, k) ==
  (16 * BitOf(bytes, 5 * k - 5)) + (8 * BitOf(bytes, 5 * k - 4))
    + (4 * BitOf(bytes, 5 * k - 3)) + (2 * BitOf(bytes, 5 * k - 2))
    + BitOf(bytes, 5 * k - 1)

\* C16: base32Encode of n bytes returns ceil(8n/5) characters, all from
\* A-Z2-7 and none "=", the k-th being the symbol of the k-th group of five
\* bits of the bytes; the last group, when 8n is no multiple of 5, is the
\* remaining 1-4 bits followed by zero bits.
EncodedShape ==
  b32.pc \in {"encoded", "roundtrip"} =>
    /\ Len(b32.text) = ((8 * Len(b32.buffer)) + 4) \div 5
    /\ \A k \in 1..Len(b32.text) :
         /\ b32.text[k] \in Alphabet
         /\ b32.text[k] # "="
         /\ b32.text[k] = BASE32_CHARS[Quintet(b32.buffer, k) + 1]

\* Two bytes were encoded: the fourth character carries their last bit,
\* which is set, followed by four zero bits.
EncodedPartialGroup ==
  /\ b32.pc = "encoded"
  /\ b32.buffer = <<0, 1>>
  /\ b32.text = <<"A", "A", "A", "Q">>

\* The 5-bit values of the characters of the text that are no whitespace,
\* upper-cased, in order.
Symbols(text) ==
  LET kept == SelectSeq(text, LAMBDA ch : ch \notin Whitespace)
  IN  [k \in 1..Len(kept) |->
         CHOOSE v \in 0..31 : BASE32_CHARS[v + 1] = ToUpperCase(kept[k])]

\* Bit q (from 0) of the 5-bit values put one after the other, most
\* significant bit first.
SymbolBit(symbols, q) ==
  (symbols[(q \div 5) + 1] \div (2 ^ (4 - (q % 5)))) % 2

\* The j-th byte of the bits of the 5-bit values.
Octet(symbols, j) ==
  (128 * SymbolBit(symbols, 8 * j - 8)) + (64 * SymbolBit(symbols, 8 * j - 7))
    + (32 * SymbolBit(symbols, 8 * j - 6))
    + (16 * SymbolBit(symbols, 8 * j - 5))
    + (8 * SymbolBit(symbols, 8 * j - 4)) + (4 * SymbolBit(symbols, 8 * j - 3))
    + (2 * SymbolBit(symbols, 8 * j - 2)) + SymbolBit(symbols, 8 * j - 1)

\* C17: base32Decode of a text whose m characters other than whitespace
\* are, upper-cased, all in the alphabet returns floor(5m/8) bytes, the j-th
\* being bits 8j-8 .. 8j-1 of the 5-bit values put one after the other; the
\* bits left over are dropped whatever they are, and a text with no such
\* character gives no bytes.
DecodedShape ==
  (b32.pc \in {"decoded", "roundtrip"} /\ ~HasForeignChar(b32.text)) =>
    LET symbols == Symbols(b32.text)
        n == (5 * Len(symbols)) \div 8
    IN  /\ b32.out.ok
        /\ Len(b32.out.value) = n
        /\ \A j \in 1..n : b32.out.value[j] = Octet(symbols, j)

\* Seven "7" were decoded to four bytes, the last three bits, all set,
\* dropped.
DecodedDroppingSetBits ==
  /\ b32.pc = "decoded"
  /\ b32.text = << "7", "7", "7", "7", "7", "7", "7" >>
  /\ b32.out = Ok(<< 255, 255, 255, 255 >>)

\* The eight bytes of counter mod 2^64, most significant first.
BigEndian64(counter) ==
  << (counter[1] % 65536) \div 256, counter[1] % 256,
     counter[2] \div 65536, (counter[2] \div 256) % 256, counter[2] % 256,
     counter[3] \div 65536, (counter[3] \div 256) % 256, counter[3] % 256 >>

\* C18: for every counter passed to generateHOTP, also one at or above
\* 2^64 and a negative one, counterBuffer is the eight bytes of counter mod
\* 2^64, most significant first, and the token is the one made from the HMAC
\* of exactly these eight bytes.
CounterMessage ==
  Called("generateHOTP") =>
    LET a == api.args
        message == BigEndian64(a.counter)
    IN  /\ CounterBuffer(a.counter) = message
        /\ a.algorithm \in Supported =>
             /\ api.result.ok
             /\ api.result.value =
                  padStart(toString(ModPow10(
                             Truncate(createHmac(algoMap[a.algorithm],
                                                 a.secret, message)),
                             a.digits)),
                           a.digits, "0")

\* generateHOTP was called with counter 2^64 + 1 and returned the token of
\* counter 1.
WideCounterWrapped ==
  /\ Called("generateHOTP")
  /\ api.args.counter = <<65536, 0, 1>>
  /\ api.args.secret = RfcKey
  /\ api.result.ok
  /\ api.result.value = << "2", "8", "7", "0", "8", "2" >>

\* The bits left in the accumulator when the loop of base32Decode ends.
LeftoverBits == DecodeRun(b32.text).bits

\* C20 as stated: at the end of every successful base32Decode fewer than 5
\* bits are left in the accumulator.
LeftoverBelowFive ==
  (b32.pc \in {"decoded", "roundtrip"} /\ b32.out.ok) => LeftoverBits < 5

\* C20: at the end of every successful base32Decode fewer than 8 bits are
\* left in the accumulator, the bits of the m characters that the returned
\* bytes do not hold, and they are dropped without error: a text of
\* characters of the alphabet decodes whatever its length.
LeftoverBelowEight ==
  b32.pc \in {"decoded", "roundtrip"} =>
    /\ b32.out.ok =>
         /\ LeftoverBits \in 0..7
         /\ (8 * Len(b32.out.value)) + LeftoverBits
              = 5 * Len(Symbols(b32.text))
    /\ ~HasForeignChar(b32.text) => b32.out.ok

\* Three "7" were decoded to one byte, seven bits being left and dropped.
DecodedLeavingSevenBits ==
  /\ b32.pc = "decoded"
  /\ b32.text = << "7", "7", "7" >>
  /\ LeftoverBits = 7
  /\ b32.out = Ok(<< 255 >>)

\* verifyTOTP was called with a negative window, or verifyToken with a
\* negative options.window.
CalledWithNegativeWindow ==
  /\ Called("verifyTOTP") \/ Called("verifyToken")
  /\ WindowOf(api.args) < 0

\* C21 as stated: with a negative window verifyTOTP and verifyToken
\* generate no token and return false for every input.
NegativeWindowReturnsFalse ==
  CalledWithNegativeWindow => api.result = Ret(FALSE, <<>>)

\* C21: with a negative window verifyTOTP, for every input, and verifyToken,
\* for every input with a secret and a token, take no step (no decode, no
\* HMAC, no comparison) and return false, also on the token of the timestamp
\* and on a secret that does not decode; verifyToken without a secret or a
\* token throws its input error as with any window.
NegativeWindowRejects ==
  CalledWithNegativeWindow =>
    IF Called("verifyToken")
         /\ (SecretOf(api.args) = <<>> \/ TokenOf(api.args) = <<>>)
      THEN /\ ~api.result.ok
           /\ api.result.error \in InputErrors
           /\ api.result.steps = <<>>
      ELSE api.result = Ret(FALSE, <<>>)

\* verifyToken with window -1 returned false on the token of its timestamp
\* without taking a step.
CurrentTokenRejected ==
  /\ Called("verifyToken")
  /\ api.args.form = "options"
  /\ WindowOf(api.args) = 0 - 1
  /\ SecretOf(api.args) = RfcSecret
  /\ "timestamp" \in DOMAIN api.args.options
  /\ api.args.options.timestamp = 59
  /\ TokenOf(api.args) = << "2", "8", "7", "0", "8", "2" >>
  /\ api.result = Ret(FALSE, <<>>)

\* The number of times step occurs in steps.
Times(steps, step) == Len(SelectSeq(steps, LAMBDA s : s = step))

\* verifyToken was called with a secret that decodes, no algorithm other
\* than the supported ones, and a token that is not empty and made of
\* whitespace and hyphens only.
CalledWithSeparatorsOnly ==
  /\ Called("verifyToken")
  /\ TokenOf(api.args) # <<>>
  /\ StripToken(TokenOf(api.args)) = <<>>
  /\ SecretOf(api.args) # <<>>
  /\ ~HasForeignChar(SecretOf(api.args))
  /\ api.args.form = "options" =>
       NameOr(api.args.options, "algorithm", "SHA-1") \in Supported

\* C22: verifyToken on a token made of whitespace and hyphens only, with a
\* valid secret, throws no error: the token goes empty to verifyTOTP, which
\* compares it with the token of every offset of the window and returns
\* false.
SeparatorsOnlyReturnFalse ==
  CalledWithSeparatorsOnly =>
    LET window == WindowOf(api.args)
    IN  /\ api.result.ok
        /\ api.result.value = FALSE
        /\ Times(api.result.steps, "constantTimeCompare")
             = IF window < 0 THEN 0 ELSE (2 * window) + 1

\* verifyToken in the two-argument form returned false on the token " "
\* after three comparisons.
BlankTokenCompared ==
  /\ Called("verifyToken")
  /\ api.args.form = "string"
  /\ api.args.secret = RfcSecret
  /\ api.args.token = << " " >>
  /\ api.result.ok
  /\ api.result.value = FALSE
  /\ Times(api.result.steps, "constantTimeCompare") = 3

----------------------------------------------------------------------------
(* Calls of the core side by side: each caller runs one call at a time,    *)
(* statement by statement, and starts another when it has returned.  The   *)
(* steps of the callers interleave in every order.                         *)

NumCallers == 2
Callers == 1..NumCallers

CoreOps ==
  {"base32Encode", "base32Decode", "generateHOTP", "generateTOTP",
   "verifyTOTP"}

\* The frame with the locals of the call of op that caller p runs, with a
\* fault: the locals of a function are kept in one place for all its calls.
FrameShared(p, op) == <<1, op>>

\* The frame with the locals of the call of op that caller p runs: bits,
\* value, index, output, counterBuffer and i are declared inside the
\* functions, so that every call has its own.
Frame(p, op) == <<p, op>>

\* The locals of a function as their declarations leave them.
Fresh(op) ==
  CASE op = "base32Encode" ->
         [bits |-> 0, value |-> 0, output |-> <<>>, i |-> 0]
    [] op = "base32Decode" ->
         [base32 |-> <<>>, bits |-> 0, value |-> 0, index |-> 0,
          output |-> <<>>, i |-> 0]
    [] op = "generateHOTP" ->
         [counterBuffer |-> << 0, 0, 0, 0, 0, 0, 0, 0 >>]
    [] op = "generateTOTP" -> Idle
    [] op = "verifyTOTP" -> [i |-> 0]

\* What a step leaves: the position reached and the locals, or at the end
\* of the call its outcome (the value returned or the error thrown).
Goes(pc, locals) ==
  [pc |-> pc, ended |-> FALSE, locals |-> locals, result |-> <<>>]
Ends(result) ==
  [pc |-> "done", ended |-> TRUE, locals |-> Idle, result |-> result]

\* The outcome of a call of the engine, without the trace of its steps.
Outcome(r) == IF r.ok THEN Ok(r.value) ELSE Throw(r.error)

\* One step of base32Encode(buffer): one pass of the for loop, then the
\* statements after it.
EncodeStep(a, pc, f) ==
  IF pc = "entry"
    THEN Goes("loop", Fresh("base32Encode"))
  ELSE IF f.i < Len(a.buffer)
    THEN Goes("loop",
           EncodeDrain([f EXCEPT !.value = Shl(f.value, 8) + a.buffer[f.i + 1],
                                 !.bits = f.bits + 8, !.i = f.i + 1]))
  ELSE IF f.bits > 0
    THEN Ends(Append(f.output,
                BASE32_CHARS[BitField(Shl(f.value, 5 - f.bits), 0, 5) + 1]))
  ELSE Ends(f.output)

\* One step of base32Decode(base32): the statements before the for loop,
\* one pass of the loop, or the return after it.
DecodeStep(a, pc, f) ==
  IF pc = "entry"
    THEN Goes("loop",
           [Fresh("base32Decode") EXCEPT !.base32 = Normalize(a.base32)])
  ELSE IF f.i >= Len(f.base32)
    THEN Ends(Ok(SubSeq(f.output, 1, f.index)))
  ELSE LET char == f.base32[f.i + 1]
           charIndex ==
             IF char \in DOMAIN Base32Index THEN Base32Index[char] ELSE -1
           value == Shl(f.value, 5) + charIndex
           bits  == f.bits + 5
       IN  IF charIndex = -1
             THEN Ends(Throw("Invalid Base32 character"))
           ELSE IF bits >= 8
             THEN Goes("loop",
                    [f EXCEPT !.value = value, !.bits = bits - 8,
                              !.index = f.index + 1, !.i = f.i + 1,
                              !.output = Append(f.output,
                                           BitField(value, bits - 8, 8))])
           ELSE Goes("loop",
                  [f EXCEPT !.value = value, !.bits = bits, !.i = f.i + 1])

\* One step of generateHOTP: the filling of the counter buffer, then the
\* statements from createHmac to the return.
HotpStep(a, pc, f) ==
  IF pc = "entry"
    THEN Goes("hmac", [counterBuffer |-> CounterBuffer(a.counter)])
  ELSE IF a.algorithm \notin DOMAIN algoMap
    THEN Ends(Throw("TypeError"))
  ELSE LET digest == createHmac(algoMap[a.algorithm], a.secret,
                                f.counterBuffer)
       IN  Ends(Ok(padStart(toString(ModPow10(Truncate(digest), a.digits)),
                            a.digits, "0")))

\* generateTOTP holds no statement that writes a variable twice: its one
\* step is the whole call.
TotpStep(a, pc, f) ==
  Ends(Outcome(generateTOTP(a.secret, a.timestamp, a.step, a.digits,
                            a.algorithm)))

\* One step of verifyTOTP: the start of the for loop, or one pass of it.
VerifyStep(a, pc, f) ==
  IF pc = "entry"
    THEN Goes("loop", [i |-> 0 - a.window])
  ELSE IF f.i > a.window
    THEN Ends(Ok(FALSE))
  ELSE LET expectedToken ==
             generateTOTP(a.secret, a.timestamp + f.i * a.step, a.step,
                          a.digits, a.algorithm)
       IN  IF ~expectedToken.ok
             THEN Ends(Throw(expectedToken.error))
           ELSE IF constantTimeCompare(a.token, expectedToken.value)
             THEN Ends(Ok(TRUE))
           ELSE Goes("loop", [i |-> f.i + 1])

\* One step of the call op(a).
StepOf(op, a, pc, f) ==
  CASE op = "base32Encode" -> EncodeStep(a, pc, f)
    [] op = "base32Decode" -> DecodeStep(a, pc, f)
    [] op = "generateHOTP" -> HotpStep(a, pc, f)
    [] op = "generateTOTP" -> TotpStep(a, pc, f)
    [] op = "verifyTOTP"   -> VerifyStep(a, pc, f)

\* The calls the callers make.
CoreCalls ==
  [op : {"base32Encode"}, args : [buffer : {<<>>, <<255>>, <<72, 101>>}]]
  \cup [op : {"base32Decode"},
        args : [base32 : {<<"J", "B">>, <<"j", " ", "b">>, <<"J", "1">>}]]
  \cup [op : {"generateHOTP"},
        args : [secret : {ShortKey}, counter : {BigInt(1)}, digits : {6},
                algorithm : {"SHA-1", "MD5"}]]
  \cup [op : {"generateTOTP"},
        args : [secret : {ShortSecret, BadSecret}, timestamp : {59},
                step : {30}, digits : {6}, algorithm : {"SHA-1"}]]
  \cup [op : {"verifyTOTP"},
        args : [secret : {ShortSecret},
                token : {generateTOTP(ShortSecret, 59, 30, 6, "SHA-1").value,
                         Zeros},
                timestamp : {59}, window : {1}, step : {30}, digits : {6},
                algorithm : {"SHA-1"}]]

InitCalls ==
  /\ calls = [p \in Callers |-> Idle]
  /\ frames = [f \in Callers \X CoreOps |-> Fresh(f[2])]
  /\ b32 = Idle
  /\ cmp = Idle
  /\ api = Idle
  /\ now = 0
  /\ trunc = Idle

\* Caller p, running no call, makes one.
Start(p) ==
  /\ calls[p].pc \in {"idle", "done"}
  /\ \E c \in CoreCalls :
       calls' = [calls EXCEPT
                   ![p] = [pc |-> "entry", op |-> c.op, args |-> c.args,
                           result |-> <<>>]]
  /\ UNCHANGED <<frames, b32, cmp, api, now, trunc>>

\* The call of caller p takes its next step.
Step(p) ==
  /\ calls[p].pc \notin {"idle", "done"}
  /\ LET c == calls[p]
         f == Frame(p, c.op)
         s == StepOf(c.op, c.args, c.pc, frames[f])
     IN  /\ calls' = [calls EXCEPT ![p].pc = s.pc, ![p].result = s.result]
         /\ frames' = [frames EXCEPT
                         ![f] = IF s.ended THEN Fresh(c.op) ELSE s.locals]
  /\ UNCHANGED <<b32, cmp, api, now, trunc>>

NextCalls == \E p \in Callers : Start(p) \/ Step(p)

SpecCalls == InitCalls /\ [][NextCalls]_vars

\* The result of the call op(a) run on its own.
Alone(op, a) ==
  CASE op = "base32Encode" -> base32Encode(a.buffer)
    [] op = "base32Decode" -> base32Decode(a.base32)
    [] op = "generateHOTP" ->
         Outcome(generateHOTP(a.secret, a.counter, a.digits, a.algorithm))
    [] op = "generateTOTP" ->
         Outcome(generateTOTP(a.secret, a.timestamp, a.step, a.digits,
                              a.algorithm))
    [] op = "verifyTOTP" ->
         Outcome(verifyTOTP(a.secret, a.token, a.timestamp, a.window, a.step,
                            a.digits, a.algorithm))

\* C14: whatever calls of generateHOTP, generateTOTP, verifyTOTP,
\* base32Encode and base32Decode ran before and however their steps
\* interleave with those of the other callers, a call that has returned has
\* the result it has when run alone on the same arguments.
CallsIndependent ==
  \A p \in Callers :
    calls[p].pc = "done" =>
      calls[p].result = Alone(calls[p].op, calls[p].args)

\* Caller 1 has had its token accepted by verifyTOTP for the second time in
\* a row while caller 2 is inside the loop of base32Decode.
AcceptedAgainWhileDecoding ==
  /\ calls[1].pc = "done"
  /\ calls[1].op = "verifyTOTP"
  /\ calls[1].result = Ok(TRUE)
  /\ calls[2].pc = "loop"
  /\ calls[2].op = "base32Decode"
  /\ frames[<<2, "base32Decode">>].i = 1


-----------------------------------------------------------------------------
(* The dynamic truncation of generateHOTP on its own, over digests of the  *)
(* three lengths the algorithms produce.                                   *)

\* digest.length for sha1, sha256 and sha512.
DigestLengths == {20, 32, 64}

\* A digest of the length, its bytes running from byte in steps of ramp and
\* its last byte, which holds the offset, set apart.
SampleDigest(length, byte, ramp, last) ==
  [i \in 1..length |->
     IF i = length THEN last ELSE (byte + (ramp * (i - 1))) % 256]

\* The digests truncated: the samples, and every digest of the table.
TruncatedDigests ==
  { SampleDigest(length, byte, ramp, last) :
      length \in DigestLengths, byte \in {0, 127, 128, 255},
      ramp \in {0, 1}, last \in {0, 15, 16, 240, 255} }
  \cup { Digests[q] : q \in DOMAIN Digests }

InitTruncate ==
  /\ \E digest \in TruncatedDigests :
       trunc = [pc |-> "digest", digest |-> digest]
  /\ b32 = Idle
  /\ cmp = Idle
  /\ api = Idle
  /\ now = 0
  /\ calls = Idle
  /\ frames = Idle

\* const offset = digest[digest.length - 1] & 0xf
ReadOffset ==
  /\ trunc.pc = "digest"
  /\ trunc' = [pc |-> "offset", digest |-> trunc.digest,
               offset |-> TruncateOffset(trunc.digest)]
  /\ UNCHANGED <<b32, cmp, api, now, calls, frames>>

\* const code = ((digest[offset] & 0x7f) << 24) | ...
\*   | (digest[offset + 3] & 0xff)
AssembleCode ==
  /\ trunc.pc = "offset"
  /\ trunc' = [pc |-> "code", digest |-> trunc.digest,
               offset |-> trunc.offset,
               code |-> TruncateCode(trunc.digest, trunc.offset)]
  /\ UNCHANGED <<b32, cmp, api, now, calls, frames>>

NextTruncate == ReadOffset \/ AssembleCode

SpecTruncate == InitTruncate /\ [][NextTruncate]_vars

\* C19: for every digest of 20, 32 or 64 bytes the offset is in 0..15, the
\* four bytes at offset .. offset + 3 lie inside the digest, and the code is
\* in 0 .. 2^31 - 1, made of these four bytes with the top bit of the first
\* masked.
TruncationInRange ==
  /\ Len(trunc.digest) \in DigestLengths
  /\ trunc.pc \in {"offset", "code"} =>
       /\ trunc.offset \in 0..15
       /\ \A k \in 0..3 : trunc.offset + k \in 0 .. (Len(trunc.digest) - 1)
  /\ trunc.pc = "code" =>
       /\ trunc.code >= 0
       /\ trunc.code <= 2147483647
       /\ trunc.code \div 16777216 = trunc.digest[trunc.offset + 1] % 128
       /\ (trunc.code \div 65536) % 256 = trunc.digest[trunc.offset + 2]
       /\ (trunc.code \div 256) % 256 = trunc.digest[trunc.offset + 3]
       /\ trunc.code % 256 = trunc.digest[trunc.offset + 4]

\* A digest of sha512 all of whose bytes are 255 was truncated at offset 15
\* to 2^31 - 1.
TruncatedToLargestCode ==
  /\ trunc.pc = "code"
  /\ Len(trunc.digest) = 64
  /\ trunc.digest[16] = 255
  /\ trunc.offset = 15
  /\ trunc.code = 2147483647

====
